---- MODULE Spec2Model ----
(***************************************************************************)
(* State-machine model of the flutter_multitracker native audio core:      *)
(* the InstrumentManager (instrument table, active notes, velocities,      *)
(* phases), the SequenceManager (sequences, tracks, notes, transport) and  *)
(* the FFI control plane that creates and destroys the AudioEngine which   *)
(* owns both.                                                              *)
(*                                                                         *)
(* Floats are modelled as integers: a volume is a number of ticks with     *)
(* VolOne ticks = 1.0f, a phase is a number of ticks with m_sampleRate     *)
(* ticks = 2*pi, so that the per-frame increment 2*pi*f/sampleRate is f    *)
(* ticks.                                                                  *)
(***************************************************************************)
EXTENDS Integers, Sequences, FiniteSets, TLC

VARIABLES
    ffi,               \* multitracker_ffi.cpp: the global pointers, how often each object
                       \* behind them was destroyed, and a second thread's call in flight
    g_initialized,     \* multitracker_ffi.cpp g_initialized (engine object exists)
    im_isInitialized,  \* InstrumentManager::m_isInitialized
    m_instruments,     \* InstrumentManager::m_instruments : id -> Instrument
    m_activeNotes,     \* InstrumentManager::m_activeNotes : id -> set of notes
    m_noteVelocities,  \* InstrumentManager::m_noteVelocities : id -> note -> velocity
    m_notePhases,      \* InstrumentManager::m_notePhases : id -> note -> phase
    nextId,            \* static nextId of InstrumentManager::generateUniqueId
    m_sampleRate,      \* AudioEngine::m_sampleRate
    renderCount,       \* number of render callbacks run so far (bounds the model)
    m_sequences,       \* SequenceManager::m_sequences : id -> Sequence
    m_nextSequenceId,  \* SequenceManager::m_nextSequenceId
    m_nextTrackId,     \* SequenceManager::m_nextTrackId
    m_nextNoteId,      \* SequenceManager::m_nextNoteId
    m_activeSequenceId,\* SequenceManager::m_activeSequenceId
    m_isPlaying,       \* SequenceManager::m_isPlaying
    seqMutex,          \* SequenceManager::m_mutex: "free", or "deadlocked" for good
    activated,         \* history: <<instrument, note>> the sequencer made active since
                       \* the last startPlayback
    audioEngine,       \* the AudioEngine object: its flags and its device resources
    threads,           \* where the device's callback thread and a control thread stand
                       \* inside the engine and the registry, and the mutexes they hold
    issued,            \* history: per kind of id, the largest id given out so far
    lastOp             \* the last call made, its arguments and its return value

regVars == <<im_isInitialized, m_instruments, m_activeNotes, m_noteVelocities, m_notePhases>>

tableVars == <<m_instruments, m_activeNotes, m_noteVelocities, m_notePhases>>

seqVars == <<m_sequences, m_nextSequenceId, m_nextTrackId, m_nextNoteId,
             m_activeSequenceId, m_isPlaying, seqMutex, activated>>

vars == <<ffi, g_initialized, im_isInitialized, m_instruments, m_activeNotes, m_noteVelocities,
          m_notePhases, nextId, m_sampleRate, renderCount, m_sequences, m_nextSequenceId,
          m_nextTrackId, m_nextNoteId, m_activeSequenceId, m_isPlaying, seqMutex, activated,
          audioEngine, threads, issued, lastOp>>

----------------------------------------------------------------------------
(* Bounds of the model *)

\* ids handed out by generateUniqueId stay <= MaxInstrumentId
MaxInstrumentId == 2
\* render callbacks per behaviour
MaxRenders == 1
\* ids handed out by generateUniqueId when the mix of several instruments is measured
MaxMixedId == 3
\* frames rendered by one callback (m_framesPerBuffer is 1024 in the source)
FramesPerBuffer == 2
\* ticks of one volume unit: VolOne ticks = 1.0f
VolOne == 2

\* ids handed out by generateUniqueId when the instrument cap is probed
MaxCapInstrumentId == 130

\* ids handed out by the sequencer's three counters stay below these
MaxSequenceId == 2
MaxTrackId == 2
MaxNoteId == 2

\* OpenSL objects one AudioEngine creates over its lifetime: two full sets
MaxDeviceObjects == 6
\* buffers the device plays to their end, each followed by one callback
MaxCallbacks == 2

(* Program constants *)
MAX_NOTES == 128
MAX_INSTRUMENTS == 128
\* times are in ticks of a tenth of a beat: the default duration 0.1 is one tick
DefaultDuration == 1
DefaultTempo == 120
DefaultSampleRate == 44100

\* the float NaN, as a volume argument
VolNaN == -999
\* the double NaN, as a time argument: the same value stands for it
TimeNaN == VolNaN

(* Inputs *)
InstrumentIdInputs == 0..(MaxInstrumentId + 1)
\* the boundary values of the note check and of the valid velocities
CheckedNotes == {-1, 0, 127, 128}
CheckedVelocities == {1, 127}
\* the arguments the behaviours are driven with
PlayedNotes == {60, 128}
PlayedVelocities == {0, 100, 128}
VolumeInputs == {-1, 0, 1, VolOne, VolOne + 1, VolNaN}
SampleRateInputs == {DefaultSampleRate}
TempoInputs == {90}
TrackInstrumentInputs == {1}
TypicalNotes == {60}
TypicalVelocities == {100}
SequenceIdInputs == 1..(MaxSequenceId + 1)
\* frame counts of a render call: none, one, a few, the cap and twice the cap
FrameCountInputs == {0, 1, 2, 4, 4096, 8192}
TrackIdInputs == 1..(MaxTrackId + 1)
NoteIdInputs == 1..(MaxNoteId + 1)
StartTimeInputs == {0, 5}
\* the start time of a note that is due as soon as its sequence plays
DueStartTimes == {0}
DurationInputs == {10}
\* sample rates an engine is initialised with when it is driven directly
DeviceSampleRates == {DefaultSampleRate, 48000}
\* the boundary values of the tempo, startTime and duration checks
CheckedTempos == {-1, 0, 90}
CheckedStartTimes == {-1, 0, 5, TimeNaN}
CheckedDurations == {-1, 0, 10, TimeNaN}
\* instruments of the tracks, and velocities of the notes, of a played sequence
PlayedInstruments == {0, 1}
PlayedSequences == {1}
PlayedTracks == {1, 2}
\* <<sequence, track>> and <<sequence, track, note>> ids of the editing calls: the
\* first track of sequence 1, the second of sequence 2, and unknown ids
EditedTracks == {<<1, 1>>, <<2, 2>>, <<MaxSequenceId + 1, 1>>, <<1, MaxTrackId + 1>>}
EditedNotes == {<<1, 1, 1>>, <<1, 1, 2>>, <<2, 2, 1>>, <<2, 2, 2>>, <<MaxSequenceId + 1, 1, 1>>,
                <<1, MaxTrackId + 1, 1>>, <<1, 1, MaxNoteId + 1>>}
StoredVelocities == {50, 100}

----------------------------------------------------------------------------
(* std::map helpers *)

EmptyMap == << >>

Has(m, k) == k \in DOMAIN m

MapPut(m, k, v) == [x \in (DOMAIN m) \cup {k} |-> IF x = k THEN v ELSE m[x]]

MapErase(m, k) == [x \in (DOMAIN m) \ {k} |-> m[x]]

\* m[k] of a std::map: the stored value, or a default-constructed one
MapGet(m, k, default) == IF Has(m, k) THEN m[k] ELSE default

\* a call that returned ret, having made the sendNoteOn calls on and the sendNoteOff
\* calls off on the registry
OpCalls(name, args, ret, on, off) ==
    [op |-> name, args |-> args, ret |-> ret, returned |-> TRUE, on |-> on, off |-> off]

\* a call that returned ret
Op(name, args, ret) == OpCalls(name, args, ret, {}, {})

\* a call that never returns
OpBlocked(name, args) ==
    [op |-> name, args |-> args, ret |-> 0, returned |-> FALSE, on |-> {}, off |-> {}]

Min(S) == CHOOSE x \in S : \A y \in S : x <= y

----------------------------------------------------------------------------
(* float comparisons, std::min and std::max *)

FLess(a, b) == a # VolNaN /\ b # VolNaN /\ a < b

\* a <= b on floats
FLessEq(a, b) == a # VolNaN /\ b # VolNaN /\ a <= b

FMin(a, b) == IF FLess(b, a) THEN b ELSE a

FMax(a, b) == IF FLess(a, b) THEN b ELSE a

IMin(a, b) == IF b < a THEN b ELSE a

IMax(a, b) == IF a < b THEN b ELSE a

----------------------------------------------------------------------------
(* InstrumentManager *)

NewInstrument == [type |-> "SINE_WAVE", volume |-> VolOne]

\* the four tables after registering instrument id with empty note state
RegisterIn(tables, id) ==
    [ins |-> MapPut(tables.ins, id, NewInstrument),
     act |-> MapPut(tables.act, id, {}),
     vel |-> MapPut(tables.vel, id, EmptyMap),
     pha |-> MapPut(tables.pha, id, EmptyMap)]

Tables == [ins |-> m_instruments, act |-> m_activeNotes,
           vel |-> m_noteVelocities, pha |-> m_notePhases]

\* a create that registers instrument 0 afresh whether or not it is there
CreateIn_ResetsDefault(tables, id) ==
    LET t1 == RegisterIn(tables, id)
    IN  IF id # 0 THEN RegisterIn(t1, 0) ELSE t1

\* createSineWaveInstrument on the given tables with the given fresh id
CreateIn(tables, id) ==
    LET t1 == RegisterIn(tables, id)
    IN  IF id # 0 /\ ~Has(t1.ins, 0) THEN RegisterIn(t1, 0) ELSE t1

SetTables(t) ==
    /\ m_instruments' = t.ins
    /\ m_activeNotes' = t.act
    /\ m_noteVelocities' = t.vel
    /\ m_notePhases' = t.pha

EmptyTables == [ins |-> EmptyMap, act |-> EmptyMap, vel |-> EmptyMap, pha |-> EmptyMap]


\* an unload that erases the instrument, its notes and velocities but not its phases
UnloadInstrumentIn_KeepPhases(t, instrumentId) ==
    IF ~Has(t.ins, instrumentId)
    THEN [t |-> t, ret |-> 0]
    ELSE [t |-> [ins |-> MapErase(t.ins, instrumentId),
                 act |-> MapErase(t.act, instrumentId),
                 vel |-> MapErase(t.vel, instrumentId),
                 pha |-> t.pha],
          ret |-> 1]

\* InstrumentManager::unloadInstrument
UnloadInstrumentIn(t, instrumentId) ==
    IF ~Has(t.ins, instrumentId)
    THEN [t |-> t, ret |-> 0]
    ELSE [t |-> [ins |-> MapErase(t.ins, instrumentId),
                 act |-> MapErase(t.act, instrumentId),
                 vel |-> MapErase(t.vel, instrumentId),
                 pha |-> MapErase(t.pha, instrumentId)],
          ret |-> 1]

\* a setInstrumentVolume that stores the volume as given
SetInstrumentVolumeIn_NoClamp(t, instrumentId, volume) ==
    IF ~Has(t.ins, instrumentId)
    THEN [t |-> t, ret |-> 0]
    ELSE [t |-> [t EXCEPT !.ins = [@ EXCEPT ![instrumentId].volume = volume]], ret |-> 1]

\* InstrumentManager::setInstrumentVolume
SetInstrumentVolumeIn(t, instrumentId, volume) ==
    IF ~Has(t.ins, instrumentId)
    THEN [t |-> t, ret |-> 0]
    ELSE LET clamped == FMax(0, FMin(VolOne, volume))
         IN  [t |-> [t EXCEPT !.ins = [@ EXCEPT ![instrumentId].volume = clamped]],
              ret |-> 1]

\* InstrumentManager::sendNoteOn
SendNoteOnIn(t, instrumentId, noteNumber, velocity) ==
    LET id == IF Has(t.ins, instrumentId) THEN instrumentId ELSE 0
    IN  IF ~Has(t.ins, id) THEN [t |-> t, ret |-> 0]
        ELSE IF noteNumber < 0 \/ noteNumber > 127 THEN [t |-> t, ret |-> 0]
        ELSE IF velocity < 0 \/ velocity > 127 THEN [t |-> t, ret |-> 0]
        ELSE IF t.ins[id].type # "SINE_WAVE" THEN [t |-> t, ret |-> 0]
        ELSE [t |-> [ins |-> t.ins,
                     act |-> MapPut(t.act, id, MapGet(t.act, id, {}) \cup {noteNumber}),
                     vel |-> MapPut(t.vel, id,
                                    MapPut(MapGet(t.vel, id, EmptyMap), noteNumber, velocity)),
                     pha |-> MapPut(t.pha, id,
                                    MapPut(MapGet(t.pha, id, EmptyMap), noteNumber, 0))],
              ret |-> 1]

\* InstrumentManager::sendNoteOff; isInit is m_isInitialized
SendNoteOffIn(isInit, t, instrumentId, noteNumber) ==
    IF ~isInit THEN [t |-> t, ret |-> 0]
    ELSE IF noteNumber < 0 \/ noteNumber >= MAX_NOTES THEN [t |-> t, ret |-> 0]
    ELSE IF ~Has(t.ins, instrumentId) THEN [t |-> t, ret |-> 0]
    ELSE LET act1 == IF Has(t.act, instrumentId)
                     THEN LET notes == t.act[instrumentId] \ {noteNumber}
                          IN  IF notes = {} THEN MapErase(t.act, instrumentId)
                              ELSE MapPut(t.act, instrumentId, notes)
                     ELSE t.act
             vel1 == IF Has(t.vel, instrumentId)
                     THEN LET velocities == MapErase(t.vel[instrumentId], noteNumber)
                          IN  IF DOMAIN velocities = {} THEN MapErase(t.vel, instrumentId)
                              ELSE MapPut(t.vel, instrumentId, velocities)
                     ELSE t.vel
         IN  [t |-> [ins |-> t.ins, act |-> act1, vel |-> vel1, pha |-> t.pha], ret |-> 1]

\* InstrumentManager::getActiveInstruments
GetActiveInstruments(t) == {id \in DOMAIN t.act : t.act[id] # {}}

\* InstrumentManager::getActiveNotes
GetActiveNotes(t, instrumentId) == MapGet(t.act, instrumentId, {})

\* InstrumentManager::getNoteVelocity
GetNoteVelocity(t, instrumentId, noteNumber) ==
    IF Has(t.vel, instrumentId) /\ Has(t.vel[instrumentId], noteNumber)
    THEN t.vel[instrumentId][noteNumber]
    ELSE 64

----------------------------------------------------------------------------
(* Oscillator *)

SemitoneMilli == <<1000, 1059, 1122, 1189, 1260, 1335, 1414, 1498, 1587, 1682, 1782, 1888>>

RECURSIVE Pow2(_)
Pow2(k) == IF k <= 0 THEN 1 ELSE 2 * Pow2(k - 1)

\* 440 * 2^((noteNumber - 69) / 12) of onProcessSamples, in whole Hz
MidiNoteToFrequency(note) ==
    LET d == note - 69
        octave == d \div 12
        semi == d % 12
    IN  IF octave >= 0
        THEN (440 * SemitoneMilli[semi + 1] * Pow2(octave)) \div 1000
        ELSE (440 * SemitoneMilli[semi + 1]) \div (1000 * Pow2(-octave))

\* while (phase >= 2*pi) phase -= 2*pi
RECURSIVE WrapWhile(_, _)
WrapWhile(phase, twoPi) == IF phase >= twoPi THEN WrapWhile(phase - twoPi, twoPi) ELSE phase

\* the per-frame loop of AudioEngine::onProcessSamples for one note
RECURSIVE AdvancePhase(_, _, _, _)
AdvancePhase(phase, inc, twoPi, numSamples) ==
    IF numSamples = 0 THEN phase
    ELSE AdvancePhase(WrapWhile(phase + inc, twoPi), inc, twoPi, numSamples - 1)

\* AudioEngine::onProcessSamples: the phase table after one callback
OnProcessSamplesIn(t, sampleRate, numSamples) ==
    LET rendered == {id \in GetActiveInstruments(t) : Has(t.ins, id)}
        phasesOf(id) ==
            LET old == MapGet(t.pha, id, EmptyMap)
            IN  [n \in (DOMAIN old) \cup GetActiveNotes(t, id) |->
                    IF n \in GetActiveNotes(t, id)
                    THEN AdvancePhase(MapGet(old, n, 0), MidiNoteToFrequency(n),
                                      sampleRate, numSamples)
                    ELSE old[n]]
    IN  [t EXCEPT !.pha = [id \in (DOMAIN t.pha) \cup rendered |->
                              IF id \in rendered THEN phasesOf(id) ELSE t.pha[id]]]


\* numFrames = std::max(1, std::min(numFrames, 4096)) of InstrumentManager::renderAudio
MaxRenderFrames == 4096

\* a sine loop that advances the phase and never wraps it
RenderFrames_Unwrapped(o, amplitude, inc, twoPi, numFrames) ==
    [phase |-> o.phase + numFrames * inc, sounded |-> o.sounded]

\* numFrames frames of the sine loop of InstrumentManager::renderAudio on o, the
\* phase of the note and whether a sample other than 0 was mixed so far.  One frame:
\* the sample is amplitude * sin(phase), which is 0 when the amplitude is 0 or the
\* phase is 0 or pi; then the phase advances and is wrapped by one `if`.  The first
\* frames are rendered before the rest.
RECURSIVE RenderFrames(_, _, _, _, _)
RenderFrames(o, amplitude, inc, twoPi, numFrames) ==
    IF numFrames = 0 THEN o
    ELSE IF numFrames = 1
    THEN [phase   |-> IF o.phase + inc >= twoPi THEN o.phase + inc - twoPi ELSE o.phase + inc,
          sounded |-> o.sounded \/ (amplitude # 0 /\ (2 * o.phase) % twoPi # 0)]
    ELSE LET first == numFrames \div 2
             half == RenderFrames(o, amplitude, inc, twoPi, first)
         IN  IF half.sounded \in BOOLEAN
             THEN RenderFrames(half, amplitude, inc, twoPi, numFrames - first)
             ELSE half

\* InstrumentManager::renderAudio: the tables it leaves, the frames of the buffer it
\* wrote and whether one of them holds a sample other than 0 (samples of different
\* notes are taken not to cancel); amplitudes are in ticks, their positive scale
\* factors left out
RenderAudioIn(isInitialized, t, sampleRate, numFrames, masterVolume) ==
    LET frames == IMax(1, IMin(numFrames, MaxRenderFrames))
        rendered == {id \in GetActiveInstruments(t) : Has(t.ins, id)}
        noteOf(id, n) ==
            RenderFrames([phase |-> MapGet(MapGet(t.pha, id, EmptyMap), n, 0), sounded |-> FALSE],
                         t.ins[id].volume * GetNoteVelocity(t, id, n) * masterVolume,
                         MidiNoteToFrequency(n), sampleRate, frames)
        phasesOf(id) ==
            LET old == MapGet(t.pha, id, EmptyMap)
            IN  [n \in (DOMAIN old) \cup GetActiveNotes(t, id) |->
                    IF n \in GetActiveNotes(t, id) THEN noteOf(id, n).phase ELSE old[n]]
    IN  IF ~isInitialized THEN [t |-> t, frames |-> 0, sounded |-> FALSE]
        ELSE IF DOMAIN t.ins = {} THEN [t |-> t, frames |-> frames, sounded |-> FALSE]
        ELSE [t |-> [t EXCEPT !.pha = [id \in (DOMAIN t.pha) \cup rendered |->
                                          IF id \in rendered THEN phasesOf(id) ELSE t.pha[id]]],
              frames |-> frames,
              sounded |-> \E id \in rendered : \E n \in GetActiveNotes(t, id) :
                              noteOf(id, n).sounded]

----------------------------------------------------------------------------
(* Sample values.  Samples and amplitudes are fixed-point numbers in thousandths. *)

\* 1.0f as a sample
SampleOne == 1000

\* the frame at which note 60 started from phase 0 comes closest to its crest
PeakFrame == DefaultSampleRate \div (4 * MidiNoteToFrequency(60))

\* frames of one buffer whose samples are measured: the first, the crest and the
\* trough of note 60 started at phase 0, and a frame on the way up
MeasuredFrames == {0, PeakFrame \div 2, PeakFrame, 3 * PeakFrame}

LoudVelocities == {127}

\* the float NaN, as a sample
SampleNaN == 1000000

\* a product of two fixed-point numbers, rounded towards zero
Scale(a, b) == IF a * b < 0 THEN -((-(a * b)) \div SampleOne) ELSE (a * b) \div SampleOne

\* the largest r in lo..hi with r * r <= x, found by halving
RECURSIVE RootBetween(_, _, _)
RootBetween(lo, hi, x) ==
    LET mid == (lo + hi + 1) \div 2
    IN  IF lo >= hi THEN lo
        ELSE IF mid * mid <= x THEN RootBetween(mid, hi, x)
        ELSE RootBetween(lo, mid - 1, x)

\* std::sqrt of a note count, in hundredths
SqrtCenti(n) == RootBetween(0, 1200, 10000 * n)

\* std::sin of a phase counted in 1/period of a turn (Bhaskara's approximation:
\* 0 at 0 and at half a turn, 1 at a quarter turn, odd about half a turn)
Sin(phase, period) ==
    LET x == ((phase % period) * 2000) \div period
        y == IF x < 1000 THEN x ELSE x - 1000
        arch == (4 * y * (1000 - y) * SampleOne) \div (1250000 - y * (1000 - y))
    IN  IF x < 1000 THEN arch ELSE -arch

\* std::tanh (its Pade approximant up to 3.0, where that reaches 1, and 1 beyond):
\* odd, increasing, within -1..1; tanh of NaN is NaN
Tanh(x) ==
    LET y == (IF x < 0 THEN -x ELSE x) \div 10
        t == IF y >= 300 THEN SampleOne
             ELSE (10 * y * (270000 + y * y)) \div (270000 + 9 * y * y)
    IN  IF x = SampleNaN THEN SampleNaN ELSE IF x < 0 THEN -t ELSE t

\* std::max(-1.0f, std::min(1.0f, x)): std::min and std::max return their first
\* argument when a comparison with NaN fails
Clamp(x) ==
    LET low == IF x # SampleNaN /\ x < SampleOne THEN x ELSE SampleOne
    IN  IF -SampleOne < low THEN low ELSE -SampleOne

\* a fixed-point volume from one of the model's volumes
VolumeMilli(volume) == IF volume = VolNaN THEN SampleNaN ELSE (volume * SampleOne) \div VolOne

\* a product of amplitudes, NaN if one of them is
Gain(a, b) == IF a = SampleNaN \/ b = SampleNaN THEN SampleNaN ELSE Scale(a, b)

\* the sum of the samples f[k] of the <<instrument, note>> pairs k of S
RECURSIVE SumOver(_, _)
SumOver(S, f) ==
    IF S = {} THEN 0
    ELSE LET k == CHOOSE x \in S : TRUE
             rest == SumOver(S \ {k}, f)
         IN  IF rest = SampleNaN \/ f[k] = SampleNaN THEN SampleNaN ELSE rest + f[k]

\* the notes a render pass mixes: the active notes of registered instruments
MixedNotes(t) ==
    {k \in (DOMAIN t.act) \X (0..127) : Has(t.ins, k[1]) /\ k[2] \in t.act[k[1]]}

\* InstrumentManager::renderAudio: what one note adds to frame i of the buffer
RenderedNote(t, masterVolume, id, n, i) ==
    LET baseAmplitude ==
            Gain((300 * 100) \div SqrtCenti(Cardinality(t.act[id])),
                 VolumeMilli(t.ins[id].volume))
        amplitude ==
            Gain(Gain(baseAmplitude, (GetNoteVelocity(t, id, n) * SampleOne) \div 127),
                 VolumeMilli(masterVolume))
        phase == MapGet(MapGet(t.pha, id, EmptyMap), n, 0) + i * MidiNoteToFrequency(n)
    IN  Gain(amplitude, Sin(phase, DefaultSampleRate))

\* InstrumentManager::renderAudio: frame i of the buffer before the limiter
MixedSample(t, masterVolume, i) ==
    SumOver(MixedNotes(t),
            [k \in MixedNotes(t) |-> RenderedNote(t, masterVolume, k[1], k[2], i)])

\* a renderAudio that leaves the mix as it is
RenderedSample_Unlimited(isInitialized, t, masterVolume, i) ==
    IF ~isInitialized \/ DOMAIN t.ins = {} \/ GetActiveInstruments(t) = {} THEN 0
    ELSE MixedSample(t, masterVolume, i)

\* AudioEngine::renderAudio: frame i of the buffer after the call; the buffer is
\* cleared first and InstrumentManager::renderAudio returns before its mixing when
\* it is not initialized, has no instruments or has no active notes
RenderedSample(isInitialized, t, masterVolume, i) ==
    IF ~isInitialized \/ DOMAIN t.ins = {} \/ GetActiveInstruments(t) = {} THEN 0
    ELSE Tanh(MixedSample(t, masterVolume, i))

\* AudioEngine::onProcessSamples: what one note adds to frame i of the buffer
ProcessedNote(t, sampleRate, id, n, i) ==
    LET velocity == (GetNoteVelocity(t, id, n) * SampleOne) \div 127
        phase == MapGet(MapGet(t.pha, id, EmptyMap), n, 0) + i * MidiNoteToFrequency(n)
        sample == Gain(Gain(velocity, VolumeMilli(t.ins[id].volume)), Sin(phase, sampleRate))
    IN  Gain(sample, 200)

\* AudioEngine::onProcessSamples: frame i of the buffer after its final clamp
ProcessedSample(t, sampleRate, i) ==
    Clamp(SumOver(MixedNotes(t),
                  [k \in MixedNotes(t) |-> ProcessedNote(t, sampleRate, k[1], k[2], i)]))

----------------------------------------------------------------------------
(* SequenceManager: the note loops of startPlayback and stopPlayback *)

\* an inner loop that triggers every note of the track, whatever its startTime
RECURSIVE NotesOn_AnyStartTime(_, _, _, _)
NotesOn_AnyStartTime(t, instrumentId, notes, ids) ==
    IF ids = {} THEN t
    ELSE LET k == Min(ids)
             note == notes[k]
             t1 == SendNoteOnIn(t, instrumentId, note.noteNumber, note.velocity).t
         IN  NotesOn_AnyStartTime(t1, instrumentId, notes, ids \ {k})

\* the inner loop of startPlayback: sendNoteOn for the notes with startTime <= 0
RECURSIVE NotesOn(_, _, _, _)
NotesOn(t, instrumentId, notes, ids) ==
    IF ids = {} THEN t
    ELSE LET k == Min(ids)
             note == notes[k]
             t1 == IF FLessEq(note.startTime, 0)
                   THEN SendNoteOnIn(t, instrumentId, note.noteNumber, note.velocity).t
                   ELSE t
         IN  NotesOn(t1, instrumentId, notes, ids \ {k})

\* the outer loop of startPlayback, over the tracks in id order
RECURSIVE TracksOn(_, _, _)
TracksOn(t, tracks, ids) ==
    IF ids = {} THEN t
    ELSE LET k == Min(ids)
             t1 == NotesOn(t, tracks[k].instrumentId, tracks[k].notes, DOMAIN tracks[k].notes)
         IN  TracksOn(t1, tracks, ids \ {k})

\* the inner loop of stopPlayback: sendNoteOff for every note of the track
RECURSIVE NotesOff(_, _, _, _, _)
NotesOff(isInit, t, instrumentId, notes, ids) ==
    IF ids = {} THEN t
    ELSE LET k == Min(ids)
             t1 == SendNoteOffIn(isInit, t, instrumentId, notes[k].noteNumber).t
         IN  NotesOff(isInit, t1, instrumentId, notes, ids \ {k})

\* the outer loop of stopPlayback
RECURSIVE TracksOff(_, _, _, _)
TracksOff(isInit, t, tracks, ids) ==
    IF ids = {} THEN t
    ELSE LET k == Min(ids)
             t1 == NotesOff(isInit, t, tracks[k].instrumentId, tracks[k].notes,
                            DOMAIN tracks[k].notes)
         IN  TracksOff(isInit, t1, tracks, ids \ {k})

\* the sendNoteOn calls the loops of startPlayback make
NoteOnCalls(tracks) ==
    {<<tracks[k].instrumentId, tracks[k].notes[j].noteNumber, tracks[k].notes[j].velocity>> :
        <<k, j>> \in {kj \in (DOMAIN tracks) \X NoteIdInputs :
                         /\ Has(tracks[kj[1]].notes, kj[2])
                         /\ FLessEq(tracks[kj[1]].notes[kj[2]].startTime, 0)}}

\* the sendNoteOff calls the loops of stopPlayback make
NoteOffCalls(tracks) ==
    {<<tracks[k].instrumentId, tracks[k].notes[j].noteNumber>> :
        <<k, j>> \in {kj \in (DOMAIN tracks) \X NoteIdInputs : Has(tracks[kj[1]].notes, kj[2])}}

\* a stopPlayback that reports failure when nothing is playing
StopPlaybackIn_IdleFails(isInit, t, sequences, activeSequenceId, isPlaying) ==
    IF ~isPlaying
    THEN [t |-> t, seqs |-> sequences, active |-> activeSequenceId, playing |-> isPlaying,
          ret |-> 0, off |-> {}]
    ELSE IF activeSequenceId >= 0 /\ Has(sequences, activeSequenceId)
    THEN [t |-> TracksOff(isInit, t, sequences[activeSequenceId].tracks,
                          DOMAIN sequences[activeSequenceId].tracks),
          seqs |-> [sequences EXCEPT ![activeSequenceId].isPlaying = FALSE],
          active |-> -1, playing |-> FALSE, ret |-> 1,
          off |-> NoteOffCalls(sequences[activeSequenceId].tracks)]
    ELSE [t |-> t, seqs |-> sequences, active |-> -1, playing |-> FALSE, ret |-> 1, off |-> {}]

\* SequenceManager::stopPlayback with the lock held: the registry tables and the
\* sequencer fields it leaves
StopPlaybackIn(isInit, t, sequences, activeSequenceId, isPlaying) ==
    IF ~isPlaying
    THEN [t |-> t, seqs |-> sequences, active |-> activeSequenceId, playing |-> isPlaying,
          ret |-> 1, off |-> {}]
    ELSE IF activeSequenceId >= 0 /\ Has(sequences, activeSequenceId)
    THEN [t |-> TracksOff(isInit, t, sequences[activeSequenceId].tracks,
                          DOMAIN sequences[activeSequenceId].tracks),
          seqs |-> [sequences EXCEPT ![activeSequenceId].isPlaying = FALSE],
          active |-> -1, playing |-> FALSE, ret |-> 1,
          off |-> NoteOffCalls(sequences[activeSequenceId].tracks)]
    ELSE [t |-> t, seqs |-> sequences, active |-> -1, playing |-> FALSE, ret |-> 1, off |-> {}]

\* what locking the std::mutex a thread already owns can do: block for ever, or
\* throw std::system_error (resource_deadlock_would_occur)
RelockOutcomes == {"deadlock", "system_error"}


----------------------------------------------------------------------------
(* AudioEngine: the device resources and the two lifecycle flags *)

\* the fallible steps of AudioEngine::init, in the order it takes them
InitSteps == <<"slCreateEngine", "RealizeEngine", "GetEngineInterface", "CreateOutputMix",
               "RealizeOutputMix", "CreateAudioPlayer", "RealizePlayer", "GetPlayInterface",
               "GetBufferQueueInterface", "RegisterCallback", "Enqueue">>

\* which step of init fails: 0 for none
InitFailures == 0..Len(InitSteps)

\* buffers a player's queue holds: numBuffers of the SLDataLocator given to
\* CreateAudioPlayer
QueueCapacity == 2

\* Enqueue on the queue of player p: refused when p is no player or the queue is full
EnqueueIn(players, p, buffer) ==
    IF p \in DOMAIN players /\ Len(players[p].queue) < QueueCapacity
    THEN [players EXCEPT ![p].queue = Append(@, buffer)]
    ELSE players

\* the fields of a newly constructed AudioEngine; objects, buffers and enqueued count
\* the OpenSL objects it created, the buffer sets it allocated and the buffers it
\* enqueued; players are the audio players it created, m_player and m_bufferQueue
\* the player whose interfaces it holds (0 for nullptr); m_tempBuffer is the number of
\* floats the scratch buffer was allocated with (0 for nullptr), m_currentBuffer the
\* index of the current output buffer, handed the buffer most recently enqueued
BUFFER_SIZE == FramesPerBuffer

ConstructedEngine ==
    [m_isInitialized |-> FALSE, m_isRunning |-> FALSE, m_engineObj |-> FALSE,
     m_outputMixObj |-> FALSE, m_playerObj |-> FALSE, objects |-> 0, buffers |-> 0,
     enqueued |-> 0, m_masterVolume |-> VolOne, m_currentBufferPtr |-> FALSE,
     m_player |-> 0, m_bufferQueue |-> 0, players |-> << >>,
     m_tempBuffer |-> 0, m_currentBuffer |-> 0, handed |-> "none"]

\* AudioEngine::init on the engine e when step fail fails
AudioEngineInitIn(e, fail) ==
    LET passed(k) == fail = 0 \/ fail > k
        one(k) == IF passed(k) THEN 1 ELSE 0
        \* a player: whether it is in SL_PLAYSTATE_PLAYING, the buffers in its queue
        \* (oldest first) and whether bufferQueueCallback is registered on it
        newPlayer == [playing |-> FALSE, queue |-> << >>, registered |-> FALSE]
        created == IF passed(6) THEN Append(e.players, newPlayer) ELSE e.players
        bufferQueue == IF passed(9) THEN Len(created) ELSE e.m_bufferQueue
        registered == IF passed(10) THEN [created EXCEPT ![bufferQueue].registered = TRUE]
                      ELSE created
    IN  [e |-> [m_isInitialized |-> passed(10) \/ e.m_isInitialized,
                m_isRunning |-> e.m_isRunning,
                m_engineObj |-> passed(1) \/ e.m_engineObj,
                m_outputMixObj |-> passed(4) \/ e.m_outputMixObj,
                m_playerObj |-> passed(6) \/ e.m_playerObj,
                objects |-> e.objects + one(1) + one(4) + one(6),
                buffers |-> e.buffers + one(10),
                enqueued |-> e.enqueued + one(11),
                m_masterVolume |-> e.m_masterVolume,
                m_currentBufferPtr |-> e.m_currentBufferPtr,
                m_player |-> IF passed(8) THEN Len(created) ELSE e.m_player,
                m_bufferQueue |-> bufferQueue,
                players |-> IF passed(11) THEN EnqueueIn(registered, bufferQueue, "m_audioBuffers[0]")
                            ELSE registered,
                m_tempBuffer |-> IF passed(10) THEN BUFFER_SIZE ELSE e.m_tempBuffer,
                m_currentBuffer |-> e.m_currentBuffer,
                handed |-> IF passed(11) /\ Len(registered[bufferQueue].queue) < QueueCapacity
                           THEN "m_audioBuffers[0]" ELSE e.handed],
         ret |-> IF fail = 0 THEN 1 ELSE 0]

\* AudioEngine::start; ok is whether SetPlayState(PLAYING) succeeds
AudioEngineStartIn(e, ok) ==
    IF ~e.m_isInitialized THEN [e |-> e, ret |-> 0]
    ELSE IF e.m_isRunning THEN [e |-> e, ret |-> 1]
    ELSE IF ~ok THEN [e |-> e, ret |-> 0]
    ELSE [e |-> [e EXCEPT !.m_isRunning = TRUE,
                          !.players[e.m_player].playing = TRUE],
          ret |-> 1]

\* AudioEngine::stop
AudioEngineStopIn(e) ==
    IF ~e.m_isRunning THEN e
    ELSE [e EXCEPT !.m_isRunning = FALSE, !.players[e.m_player].playing = FALSE]

\* AudioEngine::setMasterVolume; m_playerVolume is never obtained, so only the field
\* changes
AudioEngineSetMasterVolumeIn(e, volume) ==
    [e EXCEPT !.m_masterVolume = FMax(0, FMin(VolOne, volume))]

\* the threads whose lock steps are followed one by one: two control threads and the
\* device's callback thread
Workers == {"control A", "control B", "audio"}

SeqLock == "SequenceManager::m_mutex"

RegLock == "InstrumentManager::m_mutex"

AudioLock == "AudioEngine::m_audioMutex"

Range(f) == {f[x] : x \in DOMAIN f}

\* no callback is in flight and no control thread is inside the registry: callback is
\* where the device's thread stands in processNextBuffer, audioMutex and imMutex who
\* holds AudioEngine::m_audioMutex and InstrumentManager::m_mutex, control the
\* registry call a control thread is inside; seen are the <<instrument, note>> pairs
\* the callback found active on a registered instrument, scratch and output the
\* numbers of leading elements of m_tempBuffer and of m_currentBufferPtr it touched;
\* workers are, per thread, the call it is in, the lock steps it has left and the
\* mutexes it holds in the order it took them
NoThreads ==
    [callback |-> "idle", audioMutex |-> "free", imMutex |-> "free",
     control |-> << >>, seen |-> {}, scratch |-> 0, output |-> 0,
     workers |-> [w \in Workers |-> [call |-> "none", prog |-> << >>, holds |-> << >>]]]

----------------------------------------------------------------------------
(* Initial state: the process has loaded the library, no engine exists *)

NoIds == [instrument |-> 0, sequence |-> 0, track |-> 0, note |-> 0]

\* the FFI layer when the library is loaded: null pointers, nothing constructed
NoGlobals ==
    [g_audioEngine |-> FALSE, g_instrumentManager |-> FALSE, g_sequenceManager |-> FALSE,
     destroyed |-> [engine |-> 0, registry |-> 0, sequencer |-> 0],
     call |-> << >>, stale |-> FALSE, aborted |-> FALSE]

Init ==
    /\ ffi = NoGlobals
    /\ g_initialized = FALSE
    /\ im_isInitialized = FALSE
    /\ m_instruments = EmptyMap
    /\ m_activeNotes = EmptyMap
    /\ m_noteVelocities = EmptyMap
    /\ m_notePhases = EmptyMap
    /\ nextId = 1
    /\ m_sampleRate = DefaultSampleRate
    /\ renderCount = 0
    /\ m_sequences = EmptyMap
    /\ m_nextSequenceId = 1
    /\ m_nextTrackId = 1
    /\ m_nextNoteId = 1
    /\ m_activeSequenceId = -1
    /\ m_isPlaying = FALSE
    /\ seqMutex = "free"
    /\ activated = {}
    /\ audioEngine = ConstructedEngine
    /\ threads = NoThreads
    /\ issued = NoIds
    /\ lastOp = Op("none", << >>, 0)

\* the fields of a newly constructed SequenceManager
FreshSequencer ==
    /\ m_sequences' = EmptyMap
    /\ m_nextSequenceId' = 1
    /\ m_nextTrackId' = 1
    /\ m_nextNoteId' = 1
    /\ m_activeSequenceId' = -1
    /\ m_isPlaying' = FALSE
    /\ seqMutex' = "free"
    /\ activated' = {}

----------------------------------------------------------------------------
(* FFI control plane: engine lifetime *)

\* init_audio_engine; ok is whether AudioEngine::init succeeds at the device
InitAudioEngine(sample_rate, ok, maxId) ==
    /\ nextId <= maxId
    /\ seqMutex = "free"
    /\ IF g_initialized
       THEN /\ lastOp' = Op("init_audio_engine", <<sample_rate>>, 1)
            /\ UNCHANGED <<ffi, g_initialized, audioEngine, threads, regVars, nextId, m_sampleRate, seqVars, issued>>
       ELSE IF ~ok
       THEN /\ lastOp' = Op("init_audio_engine", <<sample_rate>>, -1)
            /\ UNCHANGED <<ffi, g_initialized, audioEngine, threads, regVars, nextId, m_sampleRate, seqVars, issued>>
       ELSE /\ audioEngine' = AudioEngineInitIn(ConstructedEngine, 0).e
            /\ UNCHANGED threads
            /\ SetTables(CreateIn(EmptyTables, nextId))
            /\ im_isInitialized' = FALSE
            /\ nextId' = nextId + 1
            /\ issued' = [issued EXCEPT !.instrument = IMax(@, nextId)]
            /\ m_sampleRate' = sample_rate
            /\ FreshSequencer
            /\ ffi' = [ffi EXCEPT !.g_audioEngine = TRUE, !.g_instrumentManager = TRUE,
                                  !.g_sequenceManager = TRUE,
                                  !.destroyed = NoGlobals.destroyed]
            /\ g_initialized' = TRUE
            /\ lastOp' = Op("init_audio_engine", <<sample_rate>>, 1)
    /\ UNCHANGED renderCount

\* shutdown: stops and deletes the engine with the registry and sequencer it owns
Shutdown ==
    /\ seqMutex = "free"
    /\ IF ~g_initialized
       THEN UNCHANGED <<ffi, g_initialized, audioEngine, threads, regVars, seqVars>>
       ELSE /\ audioEngine' = ConstructedEngine
            /\ threads' = NoThreads
            /\ SetTables(EmptyTables)
            /\ im_isInitialized' = FALSE
            /\ FreshSequencer
            /\ ffi' = [ffi EXCEPT !.g_audioEngine = FALSE, !.g_instrumentManager = FALSE,
                                  !.g_sequenceManager = FALSE,
                                  !.destroyed = [engine |-> 1, registry |-> 1, sequencer |-> 1]]
            /\ g_initialized' = FALSE
    /\ lastOp' = Op("shutdown", << >>, 1)
    /\ UNCHANGED <<nextId, m_sampleRate, renderCount, issued>>

----------------------------------------------------------------------------
(* AudioEngine operations, called on an engine its owner constructed *)

\* an operation that changes the engine's flags and device resources only
EngineFrame == UNCHANGED <<ffi, g_initialized, threads, regVars, nextId, renderCount, seqVars, issued>>

\* AudioEngine::init
AudioEngineInit(sampleRate, fail) ==
    LET r == AudioEngineInitIn(audioEngine, fail)
    IN  /\ audioEngine.objects + 3 <= MaxDeviceObjects
        /\ m_sampleRate' = sampleRate
        /\ audioEngine' = r.e
        /\ lastOp' = Op("AudioEngine::init", <<sampleRate, fail>>, r.ret)
        /\ EngineFrame

\* AudioEngine::start
AudioEngineStart(ok) ==
    LET r == AudioEngineStartIn(audioEngine, ok)
    IN  /\ audioEngine' = r.e
        /\ lastOp' = Op("AudioEngine::start", <<ok>>, r.ret)
        /\ UNCHANGED m_sampleRate
        /\ EngineFrame

\* AudioEngine::stop
AudioEngineStop ==
    /\ audioEngine' = AudioEngineStopIn(audioEngine)
    /\ lastOp' = Op("AudioEngine::stop", << >>, 0)
    /\ UNCHANGED m_sampleRate
    /\ EngineFrame

\* ~AudioEngine (stop, cleanup), after which the owner constructs its next engine
AudioEngineReplace ==
    /\ audioEngine' = ConstructedEngine
    /\ m_sampleRate' = DefaultSampleRate
    /\ lastOp' = Op("AudioEngine::~AudioEngine", << >>, 0)
    /\ EngineFrame

----------------------------------------------------------------------------
(* InstrumentManager operations, called on the engine's registry *)

\* InstrumentManager::init
IMInit ==
    /\ g_initialized
    /\ im_isInitialized' = TRUE
    /\ lastOp' = Op("InstrumentManager::init", << >>, 1)
    /\ UNCHANGED <<ffi, g_initialized, audioEngine, threads, tableVars, nextId, m_sampleRate, renderCount, seqVars, issued>>

\* InstrumentManager::createSineWaveInstrument
CreateSineWaveInstrument(maxId) ==
    /\ g_initialized
    /\ nextId <= maxId
    /\ SetTables(CreateIn(Tables, nextId))
    /\ nextId' = nextId + 1
    /\ issued' = [issued EXCEPT !.instrument = IMax(@, nextId)]
    /\ lastOp' = Op("createSineWaveInstrument", << >>, nextId)
    /\ UNCHANGED <<ffi, g_initialized, audioEngine, threads, im_isInitialized, m_sampleRate, renderCount, seqVars>>

\* an operation that changes the tables only: r is [t, ret]
RegistryCall(name, args, r) ==
    /\ g_initialized
    /\ SetTables(r.t)
    /\ lastOp' = Op(name, args, r.ret)
    /\ UNCHANGED <<ffi, g_initialized, audioEngine, threads, im_isInitialized, nextId, m_sampleRate, renderCount,
                   seqVars, issued>>

UnloadInstrument(instrumentId) ==
    RegistryCall("unloadInstrument", <<instrumentId>>, UnloadInstrumentIn(Tables, instrumentId))

SetInstrumentVolume(instrumentId, volume) ==
    RegistryCall("setInstrumentVolume", <<instrumentId, volume>>,
                 SetInstrumentVolumeIn(Tables, instrumentId, volume))

SendNoteOn(instrumentId, noteNumber, velocity) ==
    RegistryCall("sendNoteOn", <<instrumentId, noteNumber, velocity>>,
                 SendNoteOnIn(Tables, instrumentId, noteNumber, velocity))

SendNoteOff(instrumentId, noteNumber) ==
    RegistryCall("sendNoteOff", <<instrumentId, noteNumber>>,
                 SendNoteOffIn(im_isInitialized, Tables, instrumentId, noteNumber))

----------------------------------------------------------------------------
(* FFI control plane: instruments and notes *)

\* a play_note that passes the id on without looking the instrument up
PlayNoteIn_NoLookup(t, instrumentId, note, velocity) ==
    SendNoteOnIn(t, instrumentId, note, velocity)

\* play_note: the instrument must exist before sendNoteOn is called
PlayNoteIn(t, instrumentId, note, velocity) ==
    IF ~Has(t.ins, instrumentId) THEN [t |-> t, ret |-> 0]
    ELSE SendNoteOnIn(t, instrumentId, note, velocity)

\* a control-plane call on the registry: rejected with fail when !g_initialized
FfiRegistryCall(name, args, r, fail) ==
    /\ IF g_initialized
       THEN SetTables(r.t) /\ lastOp' = Op(name, args, r.ret)
       ELSE UNCHANGED tableVars /\ lastOp' = Op(name, args, fail)
    /\ UNCHANGED <<ffi, g_initialized, audioEngine, threads, im_isInitialized, nextId, m_sampleRate, renderCount,
                   seqVars, issued>>

\* play_note
PlayNote(instrumentId, note, velocity) ==
    FfiRegistryCall("play_note", <<instrumentId, note, velocity>>,
                    PlayNoteIn(Tables, instrumentId, note, velocity), 0)

\* stop_note
StopNote(instrumentId, note) ==
    FfiRegistryCall("stop_note", <<instrumentId, note>>,
                    SendNoteOffIn(im_isInitialized, Tables, instrumentId, note), 0)

\* load_instrument_sfz, load_instrument_sf2: both create a sine wave instrument
LoadInstrument(maxId) ==
    /\ nextId <= maxId
    /\ IF g_initialized
       THEN /\ SetTables(CreateIn(Tables, nextId))
            /\ nextId' = nextId + 1
            /\ issued' = [issued EXCEPT !.instrument = IMax(@, nextId)]
            /\ lastOp' = Op("load_instrument", << >>, IF nextId < 0 THEN -1 ELSE nextId)
       ELSE /\ lastOp' = Op("load_instrument", << >>, -1)
            /\ UNCHANGED <<tableVars, nextId, issued>>
    /\ UNCHANGED <<ffi, g_initialized, audioEngine, threads, im_isInitialized, m_sampleRate, renderCount, seqVars>>

----------------------------------------------------------------------------
(* FFI control plane: dispose, and the calls of a second control thread *)

\* what the process does after it deleted an object twice or used a deleted one
UndefinedOutcomes == {"returns", "aborts"}

\* dispose: deletes the sequencer and the registry through the global pointers, then
\* the engine, whose unique_ptr members delete the same two objects again
Dispose(outcome) ==
    /\ seqMutex = "free"
    /\ ~ffi.aborted
    /\ IF ~ffi.g_audioEngine
       THEN /\ UNCHANGED <<ffi, audioEngine, threads, regVars, seqVars>>
            /\ lastOp' = Op("dispose", << >>, 1)
       ELSE /\ audioEngine' = ConstructedEngine
            /\ threads' = NoThreads
            /\ SetTables(EmptyTables)
            /\ im_isInitialized' = FALSE
            /\ FreshSequencer
            /\ ffi' = [ffi EXCEPT
                   !.g_audioEngine = FALSE, !.g_instrumentManager = FALSE,
                   !.g_sequenceManager = FALSE,
                   !.destroyed = [engine |-> 1,
                                  registry |-> (IF ffi.g_instrumentManager THEN 1 ELSE 0) + 1,
                                  sequencer |-> (IF ffi.g_sequenceManager THEN 1 ELSE 0) + 1],
                   !.aborted = (outcome = "aborts")]
            /\ lastOp' = IF outcome = "aborts" THEN OpBlocked("dispose", << >>)
                         ELSE Op("dispose", << >>, 1)
    /\ g_initialized' = FALSE
    /\ UNCHANGED <<nextId, m_sampleRate, renderCount, issued>>

\* play_note on a second thread, up to its test of g_initialized and g_instrumentManager
PlayNoteEnter(instrumentId, note, velocity) ==
    /\ ~ffi.aborted
    /\ ffi.call = << >>
    /\ IF g_initialized /\ ffi.g_instrumentManager
       THEN /\ ffi' = [ffi EXCEPT !.call = <<instrumentId, note, velocity>>]
            /\ UNCHANGED lastOp
       ELSE /\ lastOp' = Op("play_note", <<instrumentId, note, velocity>>, 0)
            /\ UNCHANGED ffi
    /\ UNCHANGED <<g_initialized, audioEngine, threads, regVars, nextId, m_sampleRate,
                   renderCount, seqVars, issued>>

\* play_note on a second thread, from its first use of g_instrumentManager on: the
\* pointer now read is null or the registry behind the one read before is deleted
\* when a shutdown or dispose ran in between
PlayNoteLeave(outcome, garbage) ==
    /\ ~ffi.aborted
    /\ ffi.call # << >>
    /\ IF ffi.g_instrumentManager /\ ffi.destroyed.registry = 0
       THEN LET r == PlayNoteIn(Tables, ffi.call[1], ffi.call[2], ffi.call[3])
            IN  /\ SetTables(r.t)
                /\ lastOp' = Op("play_note", ffi.call, r.ret)
                /\ ffi' = [ffi EXCEPT !.call = << >>]
       ELSE /\ UNCHANGED tableVars
            /\ ffi' = [ffi EXCEPT !.call = << >>, !.stale = TRUE,
                                  !.aborted = (outcome = "aborts")]
            /\ lastOp' = IF outcome = "aborts" THEN OpBlocked("play_note", ffi.call)
                         ELSE Op("play_note", ffi.call, garbage)
    /\ UNCHANGED <<g_initialized, audioEngine, threads, im_isInitialized, nextId,
                   m_sampleRate, renderCount, seqVars, issued>>

----------------------------------------------------------------------------
(* Audio callback *)

\* AudioEngine::processNextBuffer: one callback; it advances the phases
ProcessNextBuffer ==
    /\ g_initialized
    /\ renderCount < MaxRenders
    /\ SetTables(OnProcessSamplesIn(Tables, m_sampleRate, FramesPerBuffer))
    /\ renderCount' = renderCount + 1
    /\ lastOp' = Op("processNextBuffer", << >>, 0)
    /\ UNCHANGED <<ffi, g_initialized, audioEngine, threads, im_isInitialized, nextId, m_sampleRate, seqVars, issued>>

\* AudioEngine::renderAudio: it zero-fills the numFrames frames of the buffer and has
\* the registry render into it at the engine's master volume; it returns 1 when the
\* buffer then holds a sample other than 0
AudioEngineRenderAudio(numFrames) ==
    LET r == RenderAudioIn(im_isInitialized, Tables, DefaultSampleRate, numFrames,
                           audioEngine.m_masterVolume)
    IN  /\ g_initialized
        /\ renderCount < MaxRenders
        /\ IF numFrames <= 0
           THEN UNCHANGED tableVars /\ lastOp' = Op("AudioEngine::renderAudio", <<numFrames>>, 0)
           ELSE /\ SetTables(r.t)
                /\ lastOp' = Op("AudioEngine::renderAudio", <<numFrames>>,
                                IF r.sounded THEN 1 ELSE 0)
        /\ renderCount' = renderCount + 1
        /\ UNCHANGED <<ffi, g_initialized, audioEngine, threads, im_isInitialized, nextId,
                       m_sampleRate, seqVars, issued>>


----------------------------------------------------------------------------
(* The device's thread: a player that is playing finishes its oldest buffer,  *)
(* takes it off its queue and calls bufferQueueCallback, which runs           *)
(* processNextBuffer on the engine it was registered with.  The thread shares *)
(* no mutex with start, stop or init, so their calls interleave with it.      *)

\* player p finishes its oldest buffer and calls back; processNextBuffer passes its
\* m_isInitialized test, clears m_tempBuffer and enters onProcessSamples, where it
\* takes m_audioMutex
BufferComplete(p) ==
    /\ p \in DOMAIN audioEngine.players
    /\ audioEngine.players[p].playing
    /\ audioEngine.players[p].registered
    /\ audioEngine.players[p].queue # << >>
    /\ threads.callback = "idle"
    /\ renderCount < MaxCallbacks
    /\ audioEngine' = [audioEngine EXCEPT !.players[p].queue = Tail(@)]
    /\ threads' = IF audioEngine.m_isInitialized
                  THEN [threads EXCEPT !.callback = "onProcessSamples", !.audioMutex = "callback",
                                       !.scratch = FramesPerBuffer * 2]
                  ELSE threads
    /\ renderCount' = renderCount + 1
    /\ lastOp' = Op("bufferQueueCallback", <<p>>, 0)
    /\ UNCHANGED <<ffi, g_initialized, regVars, nextId, m_sampleRate, seqVars, issued>>

\* the reads of onProcessSamples: it zero-fills numSamples floats of the buffer and
\* finds the active notes of the registered instruments through getActiveInstruments,
\* getActiveNotes and getInstrument, none of which takes InstrumentManager::m_mutex
CallbackRead ==
    /\ threads.callback = "onProcessSamples"
    /\ threads' = [threads EXCEPT
                      !.callback = "synthesis",
                      !.seen = {<<id, n>> \in GetActiveInstruments(Tables) \X (0..127) :
                                   Has(m_instruments, id) /\ n \in GetActiveNotes(Tables, id)},
                      !.scratch = IMax(@, FramesPerBuffer)]
    /\ lastOp' = Op("getActiveInstruments", << >>, 0)
    /\ UNCHANGED <<ffi, g_initialized, audioEngine, regVars, nextId, m_sampleRate, renderCount,
                   seqVars, issued>>

\* the sine loops of onProcessSamples: for every note it found it takes the phase
\* through getNotePhase, which takes no mutex and inserts the entry when it is not
\* there, and advances it; then it releases m_audioMutex
CallbackRender ==
    /\ threads.callback = "synthesis"
    /\ LET ids == {x[1] : x \in threads.seen}
           found == [ins |-> [id \in ids |-> NewInstrument],
                     act |-> [id \in ids |-> {x[2] : x \in {y \in threads.seen : y[1] = id}}],
                     vel |-> m_noteVelocities,
                     pha |-> m_notePhases]
       IN  m_notePhases' = OnProcessSamplesIn(found, m_sampleRate, FramesPerBuffer).pha
    /\ threads' = [threads EXCEPT !.callback = "convert", !.audioMutex = "free", !.seen = {}]
    /\ lastOp' = Op("onProcessSamples", << >>, 0)
    /\ UNCHANGED <<ffi, g_initialized, audioEngine, im_isInitialized, m_instruments, m_activeNotes,
                   m_noteVelocities, nextId, m_sampleRate, renderCount, seqVars, issued>>

\* the conversion loop of processNextBuffer: it allocates m_currentBufferPtr on
\* first use and writes every sample of it
CallbackConvert ==
    /\ threads.callback = "convert"
    /\ audioEngine' = [audioEngine EXCEPT !.m_currentBufferPtr = TRUE]
    /\ threads' = [threads EXCEPT !.callback = "Enqueue",
                                  !.scratch = IMax(@, FramesPerBuffer * 2),
                                  !.output = FramesPerBuffer * 2]
    /\ lastOp' = Op("convert", << >>, 0)
    /\ UNCHANGED <<ffi, g_initialized, regVars, nextId, m_sampleRate, renderCount, seqVars, issued>>

\* the Enqueue of processNextBuffer on m_bufferQueue; a refusal is only logged
CallbackEnqueue ==
    /\ threads.callback = "Enqueue"
    /\ LET players == EnqueueIn(audioEngine.players, audioEngine.m_bufferQueue, "m_currentBufferPtr")
           accepted == players # audioEngine.players
       IN  /\ audioEngine' = [audioEngine EXCEPT
                                 !.players = players,
                                 !.enqueued = IF accepted THEN @ + 1 ELSE @,
                                 !.handed = IF accepted THEN "m_currentBufferPtr" ELSE @]
           /\ lastOp' = Op("processNextBuffer", << >>, IF accepted THEN 1 ELSE 0)
    /\ threads' = [threads EXCEPT !.callback = "idle", !.scratch = 0, !.output = 0]
    /\ UNCHANGED <<ffi, g_initialized, regVars, nextId, m_sampleRate, renderCount, seqVars, issued>>

----------------------------------------------------------------------------
(* A control thread inside the engine's registry: every mutating operation of *)
(* InstrumentManager holds m_mutex from its first statement to its return.    *)

\* the registry calls a control thread makes while callbacks run
LockedRegistryCalls ==
    {<<"createSineWaveInstrument">>, <<"sendNoteOn", 1, 60, 100>>, <<"sendNoteOff", 1, 60>>,
     <<"unloadInstrument", 1>>, <<"setInstrumentVolume", 1, 1>>}

\* the control thread enters the call and takes m_mutex; sendNoteOff on a registry
\* that was never init()'d returns before it reaches the lock
RegistryEnter(call) ==
    /\ threads.control = << >>
    /\ threads.imMutex = "free"
    /\ call[1] = "createSineWaveInstrument" => nextId <= MaxInstrumentId
    /\ IF call[1] = "sendNoteOff" /\ ~im_isInitialized
       THEN /\ lastOp' = Op(call[1], Tail(call), 0)
            /\ UNCHANGED threads
       ELSE /\ lastOp' = OpBlocked(call[1], Tail(call))
            /\ threads' = [threads EXCEPT !.control = call, !.imMutex = "control"]
    /\ UNCHANGED <<ffi, g_initialized, audioEngine, regVars, nextId, m_sampleRate, renderCount,
                   seqVars, issued>>

\* the call changes the tables, releases m_mutex and returns
RegistryLeave ==
    /\ threads.control # << >>
    /\ LET call == threads.control
           created == call[1] = "createSineWaveInstrument"
           r == CASE created -> [t |-> CreateIn(Tables, nextId), ret |-> nextId]
                  [] call[1] = "sendNoteOn" -> SendNoteOnIn(Tables, call[2], call[3], call[4])
                  [] call[1] = "sendNoteOff" ->
                         SendNoteOffIn(im_isInitialized, Tables, call[2], call[3])
                  [] call[1] = "unloadInstrument" -> UnloadInstrumentIn(Tables, call[2])
                  [] call[1] = "setInstrumentVolume" ->
                         SetInstrumentVolumeIn(Tables, call[2], call[3])
       IN  /\ SetTables(r.t)
           /\ nextId' = IF created THEN nextId + 1 ELSE nextId
           /\ issued' = IF created THEN [issued EXCEPT !.instrument = IMax(@, nextId)] ELSE issued
           /\ lastOp' = Op(call[1], Tail(call), r.ret)
    /\ threads' = [threads EXCEPT !.control = << >>, !.imMutex = "free"]
    /\ UNCHANGED <<ffi, g_initialized, audioEngine, im_isInitialized, m_sampleRate, renderCount, seqVars>>

----------------------------------------------------------------------------
(* The mutexes a call takes and releases, in the order of its statements *)

\* lock steps in which sendNoteOn and sendNoteOff call back into the sequencer with
\* the registry's m_mutex held
LockSteps_CallsBack(call) ==
    CASE call \in {"startPlayback", "stopPlayback", "addNote", "deleteNote"} ->
             <<<<"lock", SeqLock>>, <<"lock", RegLock>>, <<"unlock", RegLock>>,
               <<"unlock", SeqLock>>>>
      [] call \in {"startPlayback while playing", "deleteSequence while playing"} ->
             <<<<"lock", SeqLock>>, <<"lock", SeqLock>>, <<"lock", RegLock>>,
               <<"unlock", RegLock>>, <<"unlock", SeqLock>>, <<"unlock", SeqLock>>>>
      [] call \in {"sendNoteOn", "sendNoteOff"} ->
             <<<<"lock", RegLock>>, <<"lock", SeqLock>>, <<"unlock", SeqLock>>,
               <<"unlock", RegLock>>>>
      [] call \in {"unloadInstrument", "renderAudio"} ->
             <<<<"lock", RegLock>>, <<"unlock", RegLock>>>>
      [] call = "onProcessSamples" ->
             <<<<"lock", AudioLock>>, <<"unlock", AudioLock>>>>

\* lock_guard acquisitions and releases of one call: the sequencer's calls hold their
\* m_mutex around sendNoteOn or sendNoteOff, which hold the registry's; a startPlayback
\* or deleteSequence of a playing sequence calls stopPlayback with m_mutex held; the
\* registry's calls and renderAudio take the registry's m_mutex only; onProcessSamples
\* takes m_audioMutex only
LockSteps(call) ==
    CASE call \in {"startPlayback", "stopPlayback", "addNote", "deleteNote"} ->
             <<<<"lock", SeqLock>>, <<"lock", RegLock>>, <<"unlock", RegLock>>,
               <<"unlock", SeqLock>>>>
      [] call \in {"startPlayback while playing", "deleteSequence while playing"} ->
             <<<<"lock", SeqLock>>, <<"lock", SeqLock>>, <<"lock", RegLock>>,
               <<"unlock", RegLock>>, <<"unlock", SeqLock>>, <<"unlock", SeqLock>>>>
      [] call \in {"sendNoteOn", "sendNoteOff", "unloadInstrument", "renderAudio"} ->
             <<<<"lock", RegLock>>, <<"unlock", RegLock>>>>
      [] call = "onProcessSamples" ->
             <<<<"lock", AudioLock>>, <<"unlock", AudioLock>>>>

ControlCalls ==
    {"startPlayback", "stopPlayback", "addNote", "deleteNote", "startPlayback while playing",
     "deleteSequence while playing", "sendNoteOn", "sendNoteOff", "unloadInstrument"}

CallbackCalls == {"renderAudio", "onProcessSamples"}

\* the mutexes some worker holds
HeldLocks == UNION {Range(threads.workers[w].holds) : w \in Workers}

\* the mutex worker w is about to lock, "none" when its next step is no lock
Wanted(w) ==
    LET prog == threads.workers[w].prog
    IN  IF prog # << >> /\ prog[1][1] = "lock" THEN prog[1][2] ELSE "none"

\* the mutex worker w waits for: the one it is about to lock when a worker holds it
WaitsFor(w) == IF Wanted(w) \in HeldLocks THEN Wanted(w) ELSE "none"

ThreadFrame ==
    UNCHANGED <<ffi, g_initialized, audioEngine, regVars, nextId, m_sampleRate, renderCount,
                seqVars, issued>>

\* worker w enters a call
WorkerCall(w, call) ==
    /\ threads.workers[w].prog = << >>
    /\ threads' = [threads EXCEPT !.workers[w] =
                       [call |-> call, prog |-> LockSteps(call), holds |-> << >>]]
    /\ lastOp' = OpBlocked(call, <<w>>)
    /\ ThreadFrame

\* worker w takes the next lock of its call once no worker holds it
WorkerLock(w) ==
    /\ Wanted(w) # "none"
    /\ Wanted(w) \notin HeldLocks
    /\ threads' = [threads EXCEPT !.workers[w].prog = Tail(@),
                                  !.workers[w].holds = Append(@, Wanted(w))]
    /\ lastOp' = OpBlocked(threads.workers[w].call, <<w>>)
    /\ ThreadFrame

\* worker w releases the lock it took last; after the last release the call returns
WorkerUnlock(w) ==
    LET me == threads.workers[w]
    IN  /\ me.prog # << >>
        /\ me.prog[1][1] = "unlock"
        /\ threads' = [threads EXCEPT !.workers[w].prog = Tail(@),
                                      !.workers[w].holds = SubSeq(@, 1, Len(@) - 1)]
        /\ lastOp' = IF Len(me.prog) = 1 THEN Op(me.call, <<w>>, 1)
                     ELSE OpBlocked(me.call, <<w>>)
        /\ ThreadFrame

----------------------------------------------------------------------------
(* SequenceManager operations, called on the engine's sequencer.  Every one  *)
(* takes m_mutex first, so none proceeds once the mutex is deadlocked.       *)

NewSequence(tempo) == [tempo |-> tempo, isPlaying |-> FALSE, tracks |-> EmptyMap]

NewTrack(instrumentId) == [instrumentId |-> instrumentId, volume |-> VolOne, notes |-> EmptyMap]

\* an operation that changes the sequencer's maps and counters only
SeqFrame == UNCHANGED <<ffi, g_initialized, audioEngine, threads, regVars, nextId, m_sampleRate, renderCount>>

\* SequenceManager::init
SeqInit ==
    /\ g_initialized
    /\ seqMutex = "free"
    /\ FreshSequencer
    /\ lastOp' = Op("SequenceManager::init", << >>, 1)
    /\ UNCHANGED issued
    /\ SeqFrame

\* SequenceManager::createSequence
CreateSequence(tempo) ==
    /\ g_initialized
    /\ seqMutex = "free"
    /\ m_nextSequenceId <= MaxSequenceId
    /\ m_sequences' = MapPut(m_sequences, m_nextSequenceId,
                             NewSequence(IF tempo <= 0 THEN DefaultTempo ELSE tempo))
    /\ m_nextSequenceId' = m_nextSequenceId + 1
    /\ issued' = [issued EXCEPT !.sequence = IMax(@, m_nextSequenceId)]
    /\ lastOp' = Op("createSequence", <<tempo>>, m_nextSequenceId)
    /\ UNCHANGED <<m_nextTrackId, m_nextNoteId, m_activeSequenceId, m_isPlaying, seqMutex,
                   activated>>
    /\ SeqFrame

\* SequenceManager::addTrack
AddTrack(sequenceId, instrumentId) ==
    /\ g_initialized
    /\ seqMutex = "free"
    /\ m_nextTrackId <= MaxTrackId
    /\ IF ~Has(m_sequences, sequenceId)
       THEN /\ lastOp' = Op("addTrack", <<sequenceId, instrumentId>>, -1)
            /\ UNCHANGED <<m_sequences, m_nextTrackId, issued>>
       ELSE /\ m_sequences' = [m_sequences EXCEPT ![sequenceId].tracks =
                                  MapPut(@, m_nextTrackId, NewTrack(instrumentId))]
            /\ m_nextTrackId' = m_nextTrackId + 1
            /\ issued' = [issued EXCEPT !.track = IMax(@, m_nextTrackId)]
            /\ lastOp' = Op("addTrack", <<sequenceId, instrumentId>>, m_nextTrackId)
    /\ UNCHANGED <<m_nextSequenceId, m_nextNoteId, m_activeSequenceId, m_isPlaying, seqMutex,
                   activated>>
    /\ SeqFrame

\* SequenceManager::deleteTrack
DeleteTrack(sequenceId, trackId) ==
    /\ g_initialized
    /\ seqMutex = "free"
    /\ IF Has(m_sequences, sequenceId) /\ Has(m_sequences[sequenceId].tracks, trackId)
       THEN /\ m_sequences' = [m_sequences EXCEPT ![sequenceId].tracks = MapErase(@, trackId)]
            /\ lastOp' = Op("deleteTrack", <<sequenceId, trackId>>, 1)
       ELSE /\ lastOp' = Op("deleteTrack", <<sequenceId, trackId>>, 0)
            /\ UNCHANGED m_sequences
    /\ UNCHANGED <<m_nextSequenceId, m_nextTrackId, m_nextNoteId, m_activeSequenceId,
                   m_isPlaying, seqMutex, activated, issued>>
    /\ SeqFrame


\* an operation of the sequencer that also calls into the registry
SeqNoteFrame == UNCHANGED <<ffi, g_initialized, audioEngine, threads, im_isInitialized, nextId, m_sampleRate, renderCount>>

\* the id sendNoteOn uses: the given one, or 0 when it is not registered
Resolve(instruments, instrumentId) == IF Has(instruments, instrumentId) THEN instrumentId ELSE 0

\* the <<instrument, note>> pairs the sendNoteOn calls in calls make active on the tables t
Activations(t, calls) ==
    {<<Resolve(t.ins, c[1]), c[2]>> : c \in {d \in calls : SendNoteOnIn(t, d[1], d[2], d[3]).ret = 1}}

\* an addNote that does not look the track's instrument up
AddNoteRejectsIn_NoInstrumentCheck(sequences, instruments, sequenceId, trackId, noteNumber) ==
    \/ ~Has(sequences, sequenceId)
    \/ ~Has(sequences[sequenceId].tracks, trackId)
    \/ noteNumber < 0 \/ noteNumber > 127

\* the early returns of addNote
AddNoteRejectsIn(sequences, instruments, sequenceId, trackId, noteNumber) ==
    \/ ~Has(sequences, sequenceId)
    \/ ~Has(sequences[sequenceId].tracks, trackId)
    \/ noteNumber < 0 \/ noteNumber > 127
    \/ ~Has(instruments, sequences[sequenceId].tracks[trackId].instrumentId)

\* an addNote that triggers the note whenever the transport is playing
AddNoteFiresIn_AnySequence(isPlaying, activeSequenceId, sequenceId, startTime) ==
    isPlaying /\ FLessEq(startTime, 0)

\* whether addNote triggers the note it stored
AddNoteFiresIn(isPlaying, activeSequenceId, sequenceId, startTime) ==
    isPlaying /\ sequenceId = activeSequenceId /\ FLessEq(startTime, 0)

\* SequenceManager::addNote, called under the name name by a caller that keeps the
\* int it returns or, when toBool, stores it in a bool and returns that as 1 or 0
AddNoteVia(name, toBool, sequenceId, trackId, noteNumber, velocity, startTime, duration) ==
    LET Ret(r) == IF toBool THEN (IF r # 0 THEN 1 ELSE 0) ELSE r
        args == <<sequenceId, trackId, noteNumber, velocity, startTime, duration>>
        vel == IF velocity < 1 \/ velocity > 127 THEN IMax(1, IMin(127, velocity)) ELSE velocity
        start == IF FLess(startTime, 0) THEN 0 ELSE startTime
        dur == IF FLessEq(duration, 0) THEN DefaultDuration ELSE duration
    IN  /\ g_initialized
        /\ seqMutex = "free"
        /\ m_nextNoteId <= MaxNoteId
        /\ IF AddNoteRejectsIn(m_sequences, m_instruments, sequenceId, trackId, noteNumber)
           THEN /\ lastOp' = Op(name, args, Ret(-1))
                /\ UNCHANGED <<m_sequences, m_nextNoteId, issued, tableVars, activated>>
           ELSE LET instrumentId == m_sequences[sequenceId].tracks[trackId].instrumentId
                    note == [noteNumber |-> noteNumber, velocity |-> vel,
                             startTime |-> start, duration |-> dur]
                    calls == {<<instrumentId, noteNumber, vel>>}
                IN  /\ m_sequences' = [m_sequences EXCEPT
                           ![sequenceId].tracks[trackId].notes = MapPut(@, m_nextNoteId, note)]
                    /\ m_nextNoteId' = m_nextNoteId + 1
                    /\ issued' = [issued EXCEPT !.note = IMax(@, m_nextNoteId)]
                    /\ IF AddNoteFiresIn(m_isPlaying, m_activeSequenceId, sequenceId, start)
                       THEN /\ SetTables(SendNoteOnIn(Tables, instrumentId, noteNumber, vel).t)
                            /\ activated' = activated \cup Activations(Tables, calls)
                            /\ lastOp' = OpCalls(name, args, Ret(m_nextNoteId), calls, {})
                       ELSE /\ UNCHANGED <<tableVars, activated>>
                            /\ lastOp' = Op(name, args, Ret(m_nextNoteId))
        /\ UNCHANGED <<m_nextSequenceId, m_nextTrackId, m_activeSequenceId, m_isPlaying, seqMutex>>
        /\ SeqNoteFrame

\* SequenceManager::addNote called directly: the caller sees the int
AddNote(sequenceId, trackId, noteNumber, velocity, startTime, duration) ==
    AddNoteVia("addNote", FALSE, sequenceId, trackId, noteNumber, velocity, startTime,
               duration)

\* a deleteNote that sends noteOff whatever the transport is doing
DeleteNoteFiresIn_Always(isPlaying, activeSequenceId, sequenceId) == TRUE

\* whether deleteNote sends noteOff for the note it removes
DeleteNoteFiresIn(isPlaying, activeSequenceId, sequenceId) ==
    isPlaying /\ sequenceId = activeSequenceId

\* SequenceManager::deleteNote
DeleteNote(sequenceId, trackId, noteId) ==
    LET args == <<sequenceId, trackId, noteId>>
        found == /\ Has(m_sequences, sequenceId)
                 /\ Has(m_sequences[sequenceId].tracks, trackId)
                 /\ Has(m_sequences[sequenceId].tracks[trackId].notes, noteId)
    IN  /\ g_initialized
        /\ seqMutex = "free"
        /\ IF ~found
           THEN /\ lastOp' = Op("deleteNote", args, 0)
                /\ UNCHANGED <<m_sequences, tableVars>>
           ELSE LET track == m_sequences[sequenceId].tracks[trackId]
                    noteNumber == track.notes[noteId].noteNumber
                IN  /\ IF DeleteNoteFiresIn(m_isPlaying, m_activeSequenceId, sequenceId)
                       THEN /\ SetTables(SendNoteOffIn(im_isInitialized, Tables,
                                                       track.instrumentId, noteNumber).t)
                            /\ lastOp' = OpCalls("deleteNote", args, 1, {},
                                                 {<<track.instrumentId, noteNumber>>})
                       ELSE /\ UNCHANGED tableVars
                            /\ lastOp' = Op("deleteNote", args, 1)
                    /\ m_sequences' = [m_sequences EXCEPT
                           ![sequenceId].tracks[trackId].notes = MapErase(@, noteId)]
        /\ UNCHANGED <<m_nextSequenceId, m_nextTrackId, m_nextNoteId, m_activeSequenceId,
                       m_isPlaying, seqMutex, activated, issued>>
        /\ SeqNoteFrame

\* the part of startPlayback after the nested stopPlayback: r is what that call left
BeginPlayback(r, sequenceId) ==
    /\ m_activeSequenceId' = sequenceId
    /\ m_sequences' = [r.seqs EXCEPT ![sequenceId].isPlaying = TRUE]
    /\ m_isPlaying' = TRUE
    /\ SetTables(TracksOn(r.t, r.seqs[sequenceId].tracks, DOMAIN r.seqs[sequenceId].tracks))
    /\ seqMutex' = seqMutex
    /\ activated' = Activations(r.t, NoteOnCalls(r.seqs[sequenceId].tracks))
    /\ lastOp' = OpCalls("startPlayback", <<sequenceId>>, 1,
                         NoteOnCalls(r.seqs[sequenceId].tracks), r.off)

\* what a call leaves when its nested stopPlayback throws before doing anything
NothingStopped ==
    [t |-> Tables, seqs |-> m_sequences, active |-> m_activeSequenceId,
     playing |-> m_isPlaying, ret |-> 0, off |-> {}]

\* the calling thread blocks in the nested stopPlayback, holding m_mutex
BlockInStopPlayback(name, args) ==
    /\ seqMutex' = "deadlocked"
    /\ lastOp' = OpBlocked(name, args)
    /\ UNCHANGED <<m_sequences, m_activeSequenceId, m_isPlaying, tableVars, activated>>

\* the early return of startPlayback
StartPlaybackRejectsIn(sequences, sequenceId) == ~Has(sequences, sequenceId)

\* SequenceManager::startPlayback; it holds m_mutex when it calls stopPlayback,
\* which locks m_mutex again
StartPlayback(sequenceId, relock) ==
    /\ g_initialized
    /\ seqMutex = "free"
    /\ IF StartPlaybackRejectsIn(m_sequences, sequenceId)
       THEN /\ lastOp' = Op("startPlayback", <<sequenceId>>, 0)
            /\ UNCHANGED <<m_sequences, m_activeSequenceId, m_isPlaying, seqMutex, tableVars,
                           activated>>
       ELSE IF m_isPlaying
       THEN IF relock = "deadlock"
            THEN BlockInStopPlayback("startPlayback", <<sequenceId>>)
            ELSE BeginPlayback(NothingStopped, sequenceId)
       ELSE BeginPlayback(NothingStopped, sequenceId)
    /\ UNCHANGED <<m_nextSequenceId, m_nextTrackId, m_nextNoteId, issued>>
    /\ SeqNoteFrame

\* SequenceManager::stopPlayback, called from outside
StopPlayback ==
    LET r == StopPlaybackIn(im_isInitialized, Tables, m_sequences, m_activeSequenceId,
                            m_isPlaying)
    IN  /\ g_initialized
        /\ seqMutex = "free"
        /\ SetTables(r.t)
        /\ m_sequences' = r.seqs
        /\ m_activeSequenceId' = r.active
        /\ m_isPlaying' = r.playing
        /\ activated' = {}
        /\ lastOp' = OpCalls("stopPlayback", << >>, r.ret, {}, r.off)
        /\ UNCHANGED <<m_nextSequenceId, m_nextTrackId, m_nextNoteId, seqMutex, issued>>
        /\ SeqNoteFrame

\* SequenceManager::deleteSequence; it holds m_mutex when it calls stopPlayback
DeleteSequence(sequenceId, relock) ==
    /\ g_initialized
    /\ seqMutex = "free"
    /\ IF ~Has(m_sequences, sequenceId)
       THEN /\ lastOp' = Op("deleteSequence", <<sequenceId>>, 0)
            /\ UNCHANGED <<m_sequences, m_activeSequenceId, m_isPlaying, seqMutex, tableVars,
                           activated>>
       ELSE IF m_activeSequenceId = sequenceId /\ m_isPlaying /\ relock = "deadlock"
       THEN BlockInStopPlayback("deleteSequence", <<sequenceId>>)
       ELSE /\ m_sequences' = MapErase(m_sequences, sequenceId)
            /\ lastOp' = Op("deleteSequence", <<sequenceId>>, 1)
            /\ UNCHANGED <<m_activeSequenceId, m_isPlaying, seqMutex, tableVars, activated>>
    /\ UNCHANGED <<m_nextSequenceId, m_nextTrackId, m_nextNoteId, issued>>
    /\ SeqNoteFrame


----------------------------------------------------------------------------
(* FFI control plane: transport of the engine, master volume and add_note *)

\* an FFI call that leaves every object as it is and returns ret
FfiNoOp(name, args, ret) ==
    /\ lastOp' = Op(name, args, ret)
    /\ UNCHANGED <<ffi, g_initialized, audioEngine, threads, regVars, nextId, m_sampleRate,
                   renderCount, seqVars, issued>>

\* an FFI call that changes the engine only: e is the engine it leaves
FfiEngineCall(name, args, e, ret) ==
    /\ audioEngine' = e
    /\ lastOp' = Op(name, args, ret)
    /\ UNCHANGED <<ffi, g_initialized, threads, regVars, nextId, m_sampleRate, renderCount, seqVars,
                   issued>>

\* start_audio_engine; ok is whether SetPlayState(PLAYING) succeeds
StartAudioEngine(ok) ==
    IF ~g_initialized THEN FfiNoOp("start_audio_engine", <<ok>>, 0)
    ELSE LET r == AudioEngineStartIn(audioEngine, ok)
         IN  FfiEngineCall("start_audio_engine", <<ok>>, r.e, r.ret)

\* stop_audio_engine: AudioEngine::stop returns nothing, so an existing engine gives 1
StopAudioEngine ==
    IF ~g_initialized THEN FfiNoOp("stop_audio_engine", << >>, 0)
    ELSE FfiEngineCall("stop_audio_engine", << >>, AudioEngineStopIn(audioEngine), 1)

\* set_master_volume: logs that it is not supported and returns 1
SetMasterVolume(volume) == FfiNoOp("set_master_volume", <<volume>>, 1)

\* AudioEngine::setMasterVolume, called on the engine the FFI created
AudioEngineSetMasterVolume(volume) ==
    /\ g_initialized
    /\ FfiEngineCall("AudioEngine::setMasterVolume", <<volume>>,
                     AudioEngineSetMasterVolumeIn(audioEngine, volume), 0)

\* add_note: the int addNote returns is stored in a bool, and the bool returned as
\* 1 or 0
AddNoteFfi(sequenceId, trackId, noteNumber, velocity, startBeat, durationBeats) ==
    IF ~g_initialized
    THEN FfiNoOp("add_note",
                 <<sequenceId, trackId, noteNumber, velocity, startBeat, durationBeats>>, 0)
    ELSE AddNoteVia("add_note", TRUE, sequenceId, trackId,
                    noteNumber, velocity, startBeat, durationBeats)

----------------------------------------------------------------------------
(* Specifications *)

\* the engine's lifetime under the control plane
Lifecycle ==
    \/ \E sample_rate \in SampleRateInputs, ok \in BOOLEAN :
           InitAudioEngine(sample_rate, ok, MaxInstrumentId)
    \/ Shutdown

\* the registry as the engine owns it: nothing calls InstrumentManager::init
NextEngine ==
    \/ Lifecycle
    \/ CreateSineWaveInstrument(MaxInstrumentId)
    \/ \E id \in InstrumentIdInputs : UnloadInstrument(id)
    \/ \E id \in InstrumentIdInputs, n \in PlayedNotes, v \in PlayedVelocities :
           SendNoteOn(id, n, v)
    \/ \E id \in InstrumentIdInputs, n \in PlayedNotes : SendNoteOff(id, n)
    \/ \E id \in InstrumentIdInputs, n \in PlayedNotes, v \in PlayedVelocities :
           PlayNote(id, n, v)
    \/ \E id \in InstrumentIdInputs, n \in PlayedNotes : StopNote(id, n)

SpecEngine == Init /\ [][NextEngine]_vars

\* the registry on its own, initialised by its owner as the JNI layer does
Next ==
    \/ Lifecycle
    \/ IMInit
    \/ CreateSineWaveInstrument(MaxInstrumentId)
    \/ \E id \in InstrumentIdInputs : UnloadInstrument(id)
    \/ \E id \in InstrumentIdInputs, n \in PlayedNotes, v \in PlayedVelocities :
           SendNoteOn(id, n, v)
    \/ \E id \in InstrumentIdInputs, n \in PlayedNotes : SendNoteOff(id, n)
    \/ \E id \in InstrumentIdInputs, n \in TypicalNotes, v \in TypicalVelocities :
           PlayNote(id, n, v)

Spec == Init /\ [][Next]_vars

\* notes played while the audio callback runs
NextRender ==
    \/ Lifecycle
    \/ CreateSineWaveInstrument(MaxInstrumentId)
    \/ \E id \in InstrumentIdInputs, n \in PlayedNotes, v \in PlayedVelocities :
           SendNoteOn(id, n, v)
    \/ ProcessNextBuffer

SpecRender == Init /\ [][NextRender]_vars

\* instrument volumes
NextVol ==
    \/ Lifecycle
    \/ CreateSineWaveInstrument(MaxInstrumentId)
    \/ \E id \in InstrumentIdInputs : UnloadInstrument(id)
    \/ \E id \in InstrumentIdInputs, volume \in VolumeInputs : SetInstrumentVolume(id, volume)

SpecVol == Init /\ [][NextVol]_vars

\* instruments created one after the other through the control plane
NextCap ==
    \/ \E sample_rate \in SampleRateInputs, ok \in BOOLEAN :
           InitAudioEngine(sample_rate, ok, MaxCapInstrumentId)
    \/ LoadInstrument(MaxCapInstrumentId)

SpecCap == Init /\ [][NextCap]_vars

\* the sequencer
NextSeq ==
    \/ Lifecycle
    \/ SeqInit
    \/ CreateSineWaveInstrument(MaxInstrumentId)
    \/ \E tempo \in TempoInputs : CreateSequence(tempo)
    \/ \E s \in SequenceIdInputs, i \in TrackInstrumentInputs : AddTrack(s, i)
    \/ \E s \in SequenceIdInputs, k \in TrackIdInputs, n \in TypicalNotes,
          v \in TypicalVelocities, start \in StartTimeInputs, d \in DurationInputs :
           AddNote(s, k, n, v, start, d)
    \/ \E s \in SequenceIdInputs, relock \in RelockOutcomes : StartPlayback(s, relock)
    \/ StopPlayback
    \/ \E s \in SequenceIdInputs, relock \in RelockOutcomes : DeleteSequence(s, relock)

SpecSeq == Init /\ [][NextSeq]_vars

\* one sequence played from an idle transport while instruments come and go and
\* the audio callback runs
NextPlay ==
    \/ \E sample_rate \in SampleRateInputs : InitAudioEngine(sample_rate, TRUE, MaxInstrumentId)
    \/ CreateSineWaveInstrument(MaxInstrumentId)
    \/ \E id \in PlayedInstruments : UnloadInstrument(id)
    \/ \E tempo \in TempoInputs : CreateSequence(tempo)
    \/ \E s \in PlayedSequences, i \in PlayedInstruments : AddTrack(s, i)
    \/ \E s \in PlayedSequences, k \in PlayedTracks, n \in TypicalNotes,
          v \in StoredVelocities, start \in StartTimeInputs, d \in DurationInputs :
           AddNote(s, k, n, v, start, d)
    \/ \E s \in PlayedSequences, relock \in RelockOutcomes : StartPlayback(s, relock)
    \/ StopPlayback
    \/ ProcessNextBuffer

SpecPlay == Init /\ [][NextPlay]_vars

\* sequences edited while one of them plays, on a registry its owner initialised
NextEdit ==
    \/ \E sample_rate \in SampleRateInputs : InitAudioEngine(sample_rate, TRUE, MaxInstrumentId)
    \/ IMInit
    \/ \E id \in TrackInstrumentInputs : UnloadInstrument(id)
    \/ \E tempo \in TempoInputs : CreateSequence(tempo)
    \/ \E s \in SequenceIdInputs, i \in TrackInstrumentInputs : AddTrack(s, i)
    \/ \E sk \in EditedTracks : DeleteTrack(sk[1], sk[2])
    \/ \E sk \in EditedTracks, n \in TypicalNotes, v \in TypicalVelocities,
          start \in StartTimeInputs, d \in DurationInputs :
           AddNote(sk[1], sk[2], n, v, start, d)
    \/ \E skj \in EditedNotes : DeleteNote(skj[1], skj[2], skj[3])
    \/ \E s \in SequenceIdInputs, relock \in RelockOutcomes : StartPlayback(s, relock)
    \/ StopPlayback

SpecEdit == Init /\ [][NextEdit]_vars

\* the transport started and stopped over sequences that gain notes
NextTransport ==
    \/ \E sample_rate \in SampleRateInputs : InitAudioEngine(sample_rate, TRUE, MaxInstrumentId)
    \/ \E tempo \in TempoInputs : CreateSequence(tempo)
    \/ \E s \in SequenceIdInputs, i \in TrackInstrumentInputs : AddTrack(s, i)
    \/ \E sk \in EditedTracks, n \in TypicalNotes, v \in TypicalVelocities,
          start \in StartTimeInputs, d \in DurationInputs :
           AddNote(sk[1], sk[2], n, v, start, d)
    \/ \E s \in SequenceIdInputs, relock \in RelockOutcomes : StartPlayback(s, relock)
    \/ StopPlayback

SpecTransport == Init /\ [][NextTransport]_vars

\* notes added to tracks whose instrument may have been unloaded
NextRefuse ==
    \/ \E sample_rate \in SampleRateInputs : InitAudioEngine(sample_rate, TRUE, MaxInstrumentId)
    \/ \E id \in TrackInstrumentInputs : UnloadInstrument(id)
    \/ \E tempo \in TempoInputs : CreateSequence(tempo)
    \/ \E s \in SequenceIdInputs, i \in TrackInstrumentInputs : AddTrack(s, i)
    \/ \E sk \in EditedTracks, n \in TypicalNotes, v \in TypicalVelocities,
          start \in StartTimeInputs, d \in DurationInputs :
           AddNote(sk[1], sk[2], n, v, start, d)

SpecRefuse == Init /\ [][NextRefuse]_vars

\* notes due at once deleted from idle and from playing sequences
NextDelete ==
    \/ \E sample_rate \in SampleRateInputs : InitAudioEngine(sample_rate, TRUE, MaxInstrumentId)
    \/ IMInit
    \/ \E tempo \in TempoInputs : CreateSequence(tempo)
    \/ \E s \in SequenceIdInputs, i \in TrackInstrumentInputs : AddTrack(s, i)
    \/ \E sk \in EditedTracks, n \in TypicalNotes, v \in TypicalVelocities,
          start \in DueStartTimes, d \in DurationInputs :
           AddNote(sk[1], sk[2], n, v, start, d)
    \/ \E skj \in EditedNotes : DeleteNote(skj[1], skj[2], skj[3])
    \/ \E s \in SequenceIdInputs, relock \in RelockOutcomes : StartPlayback(s, relock)

SpecDelete == Init /\ [][NextDelete]_vars

\* notes rendered by the registry through AudioEngine::renderAudio
NextMix ==
    \/ \E sample_rate \in SampleRateInputs : InitAudioEngine(sample_rate, TRUE, MaxInstrumentId)
    \/ IMInit
    \/ CreateSineWaveInstrument(MaxInstrumentId)
    \/ \E v \in PlayedVelocities : SendNoteOn(1, 60, v)
    \/ SendNoteOff(1, 60)
    \/ \E volume \in {0, VolOne} : SetInstrumentVolume(1, volume)
    \/ \E volume \in {0, VolOne} : AudioEngineSetMasterVolume(volume)
    \/ \E numFrames \in FrameCountInputs : AudioEngineRenderAudio(numFrames)

SpecMix == Init /\ [][NextMix]_vars

\* low, middle and high notes rendered by the registry and by the callback
NextPhase ==
    \/ \E sample_rate \in SampleRateInputs : InitAudioEngine(sample_rate, TRUE, MaxInstrumentId)
    \/ IMInit
    \/ \E n \in {0, 60, 127}, v \in TypicalVelocities : SendNoteOn(1, n, v)
    \/ \E numFrames \in {1, 4} : AudioEngineRenderAudio(numFrames)
    \/ ProcessNextBuffer

SpecPhase == Init /\ [][NextPhase]_vars

\* instruments created while instrument 0 is unloaded, turned down and played
NextDefault ==
    \/ \E sample_rate \in SampleRateInputs : InitAudioEngine(sample_rate, TRUE, MaxInstrumentId)
    \/ CreateSineWaveInstrument(MaxInstrumentId)
    \/ \E id \in {0, 1} : UnloadInstrument(id)
    \/ \E volume \in {0, VolOne} : SetInstrumentVolume(0, volume)
    \/ \E id \in {0, 1}, n \in TypicalNotes, v \in TypicalVelocities : SendNoteOn(id, n, v)

SpecDefault == Init /\ [][NextDefault]_vars

\* the control plane called before init, between init and shutdown, and after shutdown
NextFfi ==
    \/ Lifecycle
    \/ \E ok \in BOOLEAN : StartAudioEngine(ok)
    \/ StopAudioEngine
    \/ \E volume \in VolumeInputs : SetMasterVolume(volume)
    \/ \E volume \in VolumeInputs : AudioEngineSetMasterVolume(volume)
    \/ LoadInstrument(MaxInstrumentId)
    \/ \E n \in TypicalNotes, v \in TypicalVelocities : PlayNote(1, n, v)
    \/ \E n \in TypicalNotes : StopNote(1, n)
    \/ \E tempo \in TempoInputs : CreateSequence(tempo)
    \/ \E i \in TrackInstrumentInputs : AddTrack(1, i)
    \/ \E sk \in EditedTracks, n \in TypicalNotes, v \in TypicalVelocities,
          start \in DueStartTimes, d \in DurationInputs :
           AddNoteFfi(sk[1], sk[2], n, v, start, d)

SpecFfi == Init /\ [][NextFfi]_vars

\* engines created and destroyed by one control thread while a second plays notes
NextLifetime ==
    \/ \E sample_rate \in SampleRateInputs, ok \in BOOLEAN :
           ~ffi.aborted /\ InitAudioEngine(sample_rate, ok, MaxInstrumentId + 1)
    \/ ~ffi.aborted /\ Shutdown
    \/ \E outcome \in UndefinedOutcomes : Dispose(outcome)
    \/ \E id \in {1, 2}, n \in TypicalNotes, v \in PlayedVelocities : PlayNoteEnter(id, n, v)
    \/ \E outcome \in UndefinedOutcomes, garbage \in {0, 1} : PlayNoteLeave(outcome, garbage)
    \/ \E n \in TypicalNotes : ~ffi.aborted /\ StopNote(1, n)

SpecLifetime == Init /\ [][NextLifetime]_vars

\* two control threads and the callback thread, each taking the locks of its calls
NextLocks ==
    \/ \E w \in Workers \ {"audio"}, call \in ControlCalls : WorkerCall(w, call)
    \/ \E call \in CallbackCalls : WorkerCall("audio", call)
    \/ \E w \in Workers : WorkerLock(w)
    \/ \E w \in Workers : WorkerUnlock(w)

SpecLocks == Init /\ [][NextLocks]_vars

\* up to four instruments sounding the same note, mixed at either volume
NextLimiter ==
    \/ \E sample_rate \in SampleRateInputs : InitAudioEngine(sample_rate, TRUE, MaxMixedId)
    \/ IMInit
    \/ CreateSineWaveInstrument(MaxMixedId)
    \/ \E id \in 0..MaxMixedId, v \in LoudVelocities : SendNoteOn(id, 60, v)
    \/ \E volume \in {1, VolNaN} : SetInstrumentVolume(1, volume)
    \/ \E volume \in {1, VolNaN} : AudioEngineSetMasterVolume(volume)
    \/ renderCount = 0 /\ AudioEngineRenderAudio(PeakFrame)

SpecLimiter == Init /\ [][NextLimiter]_vars

\* sequences and notes created with arguments on both sides of every check
NextNotes ==
    \/ \E sample_rate \in SampleRateInputs : InitAudioEngine(sample_rate, TRUE, MaxInstrumentId)
    \/ \E tempo \in CheckedTempos : CreateSequence(tempo)
    \/ \E s \in PlayedSequences, i \in TrackInstrumentInputs : AddTrack(s, i)
    \/ \E s \in PlayedSequences, k \in PlayedTracks, n \in TypicalNotes, v \in PlayedVelocities,
          start \in CheckedStartTimes, d \in CheckedDurations :
           AddNote(s, k, n, v, start, d)

SpecNotes == Init /\ [][NextNotes]_vars

\* one AudioEngine driven through its own interface, with a device that can fail
NextDevice ==
    \/ \E sampleRate \in DeviceSampleRates, fail \in InitFailures :
           AudioEngineInit(sampleRate, fail)
    \/ \E ok \in BOOLEAN : AudioEngineStart(ok)
    \/ AudioEngineStop
    \/ AudioEngineReplace

SpecDevice == Init /\ [][NextDevice]_vars

\* one AudioEngine driven through its own interface while its device plays and calls
\* back and a control thread uses its registry
NextCallback ==
    \/ \E sampleRate \in SampleRateInputs, fail \in {0, Len(InitSteps)} :
           AudioEngineInit(sampleRate, fail)
    \/ \E ok \in BOOLEAN : AudioEngineStart(ok)
    \/ AudioEngineStop
    \/ \E p \in 1..(MaxDeviceObjects \div 3) : BufferComplete(p)
    \/ CallbackRead
    \/ CallbackRender
    \/ CallbackConvert
    \/ CallbackEnqueue
    \/ \E call \in LockedRegistryCalls : RegistryEnter(call)
    \/ RegistryLeave

SpecCallback == Init /\ [][NextCallback]_vars

----------------------------------------------------------------------------
(* Properties of the registry *)

\* the velocity range of the specification: v clamped to [1, 127]
ClampVelocity(v) == IF v < 1 THEN 1 ELSE IF v > 127 THEN 127 ELSE v

\* two maps agree on key k
SameEntry(m1, m2, k) == Has(m1, k) = Has(m2, k) /\ (Has(m1, k) => m1[k] = m2[k])

\* the four tables hold nothing under id
Absent(t, id) == ~Has(t.ins, id) /\ ~Has(t.act, id) /\ ~Has(t.vel, id) /\ ~Has(t.pha, id)

\* C1: on the engine-owned registry, noteOff(id, n) for a registered id and n in
\* 0..127 returns true and leaves n out of the active set, and a further noteOff
\* returns true again and changes nothing.
C1_NoteOffSucceeds ==
    (/\ lastOp.op \in {"sendNoteOff", "stop_note"}
     /\ Has(m_instruments, lastOp.args[1])
     /\ lastOp.args[2] \in 0..127)
    => LET id == lastOp.args[1]
           n == lastOp.args[2]
           again == SendNoteOffIn(im_isInitialized, Tables, id, n)
       IN  /\ lastOp.ret = 1
           /\ n \notin GetActiveNotes(Tables, id)
           /\ again.ret = 1
           /\ again.t = Tables

\* C2: noteOn on a registered id succeeds exactly when the note is in 0..127, for
\* every velocity; it stores the velocity clamped to [1, 127]; an invalid note
\* returns false and changes nothing; every stored velocity is in [1, 127].
C2_NoteOnClampsVelocity ==
    [][LET id == lastOp'.args[1]
           n == lastOp'.args[2]
           v == lastOp'.args[3]
       IN  /\ (lastOp'.op = "sendNoteOn" /\ Has(m_instruments, id))
               => IF n \in 0..127
                  THEN /\ lastOp'.ret = 1
                       /\ Has(m_noteVelocities', id)
                       /\ Has(m_noteVelocities'[id], n)
                       /\ m_noteVelocities'[id][n] = ClampVelocity(v)
                  ELSE lastOp'.ret = 0 /\ UNCHANGED tableVars
           /\ \A i \in DOMAIN m_noteVelocities' : \A k \in DOMAIN m_noteVelocities'[i] :
                  m_noteVelocities'[i][k] \in 1..127]_vars

C5_UnloadRemovesAll ==
    /\ [](\A id \in InstrumentIdInputs :
            LET r == UnloadInstrumentIn(Tables, id)
            IN  IF Has(m_instruments, id)
                THEN /\ r.ret = 1
                     /\ Absent(r.t, id)
                     /\ \A other \in DOMAIN m_instruments \ {id} :
                            /\ SameEntry(m_instruments, r.t.ins, other)
                            /\ SameEntry(m_activeNotes, r.t.act, other)
                            /\ SameEntry(m_noteVelocities, r.t.vel, other)
                            /\ SameEntry(m_notePhases, r.t.pha, other)
                     /\ ~Has(r.t.ins, 0)
                            => \A n \in CheckedNotes, v \in CheckedVelocities :
                                  LET on == SendNoteOnIn(r.t, id, n, v)
                                  IN  on.ret = 0 /\ on.t = r.t
                ELSE r.ret = 0 /\ r.t = Tables)
    /\ [][LET id == lastOp'.args[1]
          IN  /\ lastOp'.op = "unloadInstrument"
                  => IF Has(m_instruments, id)
                     THEN /\ lastOp'.ret = 1
                          /\ Absent(Tables', id)
                          /\ \A other \in (DOMAIN m_instruments \cup DOMAIN m_instruments'
                                            \cup InstrumentIdInputs) \ {id} :
                                 /\ SameEntry(m_instruments, m_instruments', other)
                                 /\ SameEntry(m_activeNotes, m_activeNotes', other)
                                 /\ SameEntry(m_noteVelocities, m_noteVelocities', other)
                                 /\ SameEntry(m_notePhases, m_notePhases', other)
                     ELSE lastOp'.ret = 0 /\ UNCHANGED tableVars
              /\ (/\ lastOp.op = "unloadInstrument" /\ lastOp.ret = 1
                  /\ lastOp'.op = "sendNoteOn" /\ id = lastOp.args[1]
                  /\ ~Has(m_instruments, 0))
                  => lastOp'.ret = 0 /\ UNCHANGED tableVars]_vars

\* an instrument has been unloaded while another one keeps its sounding note
C5_UnloadedBesideSounding ==
    /\ lastOp.op = "unloadInstrument"
    /\ lastOp.ret = 1
    /\ \E other \in DOMAIN m_activeNotes :
           m_activeNotes[other] # {} /\ Has(m_notePhases, other)

\* C4: after a successful noteOn(id, n, v), n is active on the resolved instrument,
\* the velocity stored for n is v clamped to [1, 127] and the phase of n is 0, also
\* when n was sounding with a phase the audio callback had advanced.
C4_NoteOnStoresClampedAndResets ==
    (lastOp.op = "sendNoteOn" /\ lastOp.ret = 1)
    => LET id == IF Has(m_instruments, lastOp.args[1]) THEN lastOp.args[1] ELSE 0
           n == lastOp.args[2]
           v == lastOp.args[3]
       IN  /\ n \in GetActiveNotes(Tables, id)
           /\ Has(m_noteVelocities, id) /\ Has(m_noteVelocities[id], n)
           /\ m_noteVelocities[id][n] = ClampVelocity(v)
           /\ Has(m_notePhases, id) /\ Has(m_notePhases[id], n)
           /\ m_notePhases[id][n] = 0

\* C6: creating an instrument fails and registers nothing once the number of
\* registered instruments is at the cap, so that number never exceeds the cap.
C6_CountWithinCap ==
    /\ Cardinality(DOMAIN m_instruments) <= MAX_INSTRUMENTS
    /\ (lastOp.op = "load_instrument" /\ Cardinality(DOMAIN m_instruments) > MAX_INSTRUMENTS)
           => lastOp.ret = -1

\* a volume clamped to [0, 1]
ClampVolume(v) == IF v < 0 THEN 0 ELSE IF v > VolOne THEN VolOne ELSE v

\* C8: every registered instrument's volume is in [0, 1]; it is 1.0 at creation;
\* setInstrumentVolume(id, v) on a registered id returns true and stores v clamped
\* to [0, 1]; on an unknown id it returns false and changes no instrument.
C8_VolumeWithinUnit ==
    [][LET id == lastOp'.args[1]
           v == lastOp'.args[2]
       IN  /\ \A i \in DOMAIN m_instruments' : m_instruments'[i].volume \in 0..VolOne
           /\ \A i \in DOMAIN m_instruments' \ DOMAIN m_instruments :
                  m_instruments'[i].volume = VolOne
           /\ lastOp'.op = "setInstrumentVolume"
               => IF Has(m_instruments, id)
                  THEN /\ lastOp'.ret = 1
                       /\ DOMAIN m_instruments' = DOMAIN m_instruments
                       /\ v # VolNaN => m_instruments'[id].volume = ClampVolume(v)
                       /\ \A i \in DOMAIN m_instruments \ {id} :
                              m_instruments'[i] = m_instruments[i]
                  ELSE lastOp'.ret = 0 /\ UNCHANGED tableVars]_vars

\* a volume above 1.0 has been stored as 1.0
C8_ClampedFromAbove ==
    /\ lastOp.op = "setInstrumentVolume"
    /\ lastOp.ret = 1
    /\ lastOp.args[2] > VolOne
    /\ m_instruments[lastOp.args[1]].volume = VolOne

----------------------------------------------------------------------------
(* Properties of the ids *)

\* C7: for each kind of id (instrument, sequence, track, note), the id given to a
\* newly created entity is greater than every id of that kind given out before,
\* whatever was created, deleted, unloaded or initialised in between.
C7_IdsNeverReused ==
    [][/\ (lastOp'.op = "createSequence" /\ lastOp'.ret >= 0)
           => lastOp'.ret > issued.sequence
       /\ (lastOp'.op = "addTrack" /\ lastOp'.ret >= 0)
           => lastOp'.ret > issued.track
       /\ (lastOp'.op = "addNote" /\ lastOp'.ret >= 0)
           => lastOp'.ret > issued.note
       /\ (lastOp'.op \in {"createSineWaveInstrument", "load_instrument"} /\ lastOp'.ret >= 0)
           => lastOp'.ret > issued.instrument]_vars

----------------------------------------------------------------------------
(* Properties of the transport *)

\* C9: startPlayback(s) for an existing sequence s, called while the transport is
\* playing, returns, and returns true; the sequence that was active is no longer
\* marked playing, noteOff has been issued for its notes, and s is the one active,
\* playing sequence.
C9_RestartStopsPrevious ==
    [][LET s == lastOp'.args[1]
           old == m_activeSequenceId
       IN  (/\ lastOp'.op = "startPlayback"
            /\ Has(m_sequences, s)
            /\ m_isPlaying)
           => /\ lastOp'.returned
              /\ lastOp'.ret = 1
              /\ \A q \in DOMAIN m_sequences' : m_sequences'[q].isPlaying <=> q = s
              /\ Has(m_sequences, old)
                     => NoteOffCalls(m_sequences[old].tracks) \subseteq lastOp'.off
              /\ m_activeSequenceId' = s
              /\ m_isPlaying']_vars

\* C10: deleteSequence(s) of the active, playing sequence returns, and returns true;
\* s is gone, the transport is idle and noteOff has been issued for every note of
\* s.  Deleting another existing sequence removes it and leaves the transport
\* alone; an unknown id returns false and changes nothing.
C10_DeleteStopsPlayback ==
    [][LET s == lastOp'.args[1]
       IN  lastOp'.op = "deleteSequence"
           => IF ~Has(m_sequences, s)
              THEN /\ lastOp'.returned /\ lastOp'.ret = 0
                   /\ UNCHANGED <<m_sequences, m_activeSequenceId, m_isPlaying, tableVars>>
              ELSE IF m_isPlaying /\ m_activeSequenceId = s
              THEN /\ lastOp'.returned /\ lastOp'.ret = 1
                   /\ ~Has(m_sequences', s)
                   /\ ~m_isPlaying'
                   /\ m_activeSequenceId' = -1
                   /\ NoteOffCalls(m_sequences[s].tracks) \subseteq lastOp'.off
              ELSE /\ lastOp'.returned /\ lastOp'.ret = 1
                   /\ m_sequences' = MapErase(m_sequences, s)
                   /\ UNCHANGED <<m_activeSequenceId, m_isPlaying>>]_vars

----------------------------------------------------------------------------
(* Properties of the transport *)

\* the notes <<track, note>> of tracks with startTime <= 0 and number n whose noteOn
\* goes to instrument i
SentTo(tracks, instruments, i, n) ==
    {kj \in (DOMAIN tracks) \X NoteIdInputs :
        /\ Has(tracks[kj[1]].notes, kj[2])
        /\ tracks[kj[1]].notes[kj[2]].noteNumber = n
        /\ tracks[kj[1]].notes[kj[2]].startTime <= 0
        /\ Resolve(instruments, tracks[kj[1]].instrumentId) = i}

\* the note numbers stored in tracks
NumbersOf(tracks) ==
    {tracks[kj[1]].notes[kj[2]].noteNumber :
        kj \in {x \in (DOMAIN tracks) \X NoteIdInputs : Has(tracks[x[1]].notes, x[2])}}

\* the note numbers active on some instrument before or after the step
ActiveNumbers ==
    UNION ({m_activeNotes[i] : i \in DOMAIN m_activeNotes}
            \cup {m_activeNotes'[i] : i \in DOMAIN m_activeNotes'})

\* the last of them in track id, then note id order
LastOf(P) == CHOOSE p \in P : \A q \in P : q[1] < p[1] \/ (q[1] = p[1] /\ q[2] <= p[2])

\* startPlayback returned true, called while the transport was idle
StartedFromIdle == lastOp'.op = "startPlayback" /\ lastOp'.ret = 1 /\ ~m_isPlaying

\* a step on which no startTime > 0 note is activated: every noteOn issued, and every
\* note that becomes active, belongs to a startTime <= 0 note of the playing sequence
OnlyDueNotesActivated ==
    (lastOp'.on # {} \/ m_activeNotes' # m_activeNotes) =>
    LET playing == m_isPlaying' /\ Has(m_sequences', m_activeSequenceId')
        tracks == m_sequences'[m_activeSequenceId'].tracks
    IN  /\ \A c \in lastOp'.on :
               /\ playing
               /\ \E k \in DOMAIN tracks : \E j \in DOMAIN tracks[k].notes :
                      /\ tracks[k].instrumentId = c[1]
                      /\ tracks[k].notes[j].noteNumber = c[2]
                      /\ tracks[k].notes[j].velocity = c[3]
                      /\ tracks[k].notes[j].startTime <= 0
        /\ \A i \in DOMAIN m_activeNotes' :
               \A n \in m_activeNotes'[i] \ MapGet(m_activeNotes, i, {}) :
                   playing /\ SentTo(tracks, m_instruments', i, n) # {}

\* C11 as stated: after startPlayback(s) returns true from an idle transport, every
\* note of s with startTime <= 0 whose track's instrument is registered is active on
\* that instrument with the note's own stored velocity, and on no step is a note
\* with startTime > 0 activated
C11_StartActivatesEachNote ==
    [][/\ StartedFromIdle =>
           LET tracks == m_sequences'[lastOp'.args[1]].tracks
           IN  \A k \in DOMAIN tracks : \A j \in DOMAIN tracks[k].notes :
                   LET note == tracks[k].notes[j]
                       i == tracks[k].instrumentId
                   IN  (note.startTime <= 0 /\ Has(m_instruments', i)) =>
                           /\ note.noteNumber \in MapGet(m_activeNotes', i, {})
                           /\ Has(m_noteVelocities', i)
                           /\ Has(m_noteVelocities'[i], note.noteNumber)
                           /\ m_noteVelocities'[i][note.noteNumber] = note.velocity
       /\ OnlyDueNotesActivated]_vars

\* C11, amended: after startPlayback(s) returns true from an idle transport, every
\* note of s with startTime <= 0 whose track's instrument is registered is active on
\* that instrument, with the stored velocity of the last note of s (in track id, then
\* note id order) with startTime <= 0 and that number whose noteOn went to that
\* instrument; nothing else became active, and on no step is a note with
\* startTime > 0 activated
C11_StartActivatesLastVelocity ==
    [][/\ StartedFromIdle =>
           LET tracks == m_sequences'[lastOp'.args[1]].tracks
           IN  \A i \in DOMAIN m_instruments' : \A n \in NumbersOf(tracks) \cup ActiveNumbers :
                   LET sent == SentTo(tracks, m_instruments', i, n)
                       last == LastOf(sent)
                   IN  /\ sent # {} =>
                              /\ n \in MapGet(m_activeNotes', i, {})
                              /\ Has(m_noteVelocities', i)
                              /\ Has(m_noteVelocities'[i], n)
                              /\ m_noteVelocities'[i][n] = tracks[last[1]].notes[last[2]].velocity
                       /\ n \in MapGet(m_activeNotes', i, {}) <=>
                              (n \in MapGet(m_activeNotes, i, {}) \/ sent # {})
       /\ OnlyDueNotesActivated]_vars

\* a playback started over two due notes with the same number and two velocities
C11_StartedOverSameNumber ==
    /\ lastOp.op = "startPlayback" /\ lastOp.ret = 1 /\ m_isPlaying
    /\ \E c, d \in lastOp.on : c[2] = d[2] /\ c[3] # d[3]
    /\ activated # {}

\* C12: after stopPlayback returns from a playing transport the transport is idle and
\* no note the sequencer activated since the matching startPlayback is still active
\* on any instrument, whatever notes and tracks were added or deleted and whatever
\* instruments were unloaded in between; stated for a registry whose init() has been
\* called, where sendNoteOff is not refused outright
C12_StopSilencesActivated ==
    [][(lastOp'.op = "stopPlayback" /\ m_isPlaying /\ im_isInitialized) =>
           /\ ~m_isPlaying'
           /\ \A a \in activated : a[2] \notin MapGet(m_activeNotes', a[1], {})]_vars

\* C13: at most one sequence is marked playing; the transport is playing exactly when
\* m_activeSequenceId names an existing sequence, which is then the only one marked
\* playing; when the transport is idle no sequence is marked playing
C13_SinglePlayingSequence ==
    LET marked == {s \in DOMAIN m_sequences : m_sequences[s].isPlaying}
    IN  /\ Cardinality(marked) <= 1
        /\ m_isPlaying <=> Has(m_sequences, m_activeSequenceId)
        /\ m_isPlaying => marked = {m_activeSequenceId}
        /\ ~m_isPlaying => marked = {}

\* the program's state: everything but the model's history variables
progVars == <<g_initialized, audioEngine, threads, regVars, nextId, m_sampleRate, m_sequences,
              m_nextSequenceId, m_nextTrackId, m_nextNoteId, m_activeSequenceId, m_isPlaying,
              seqMutex>>

\* C14: stopPlayback while the transport is idle returns true, issues no noteOff and
\* changes nothing; startPlayback with an unknown sequence id returns false, issues
\* no noteOn or noteOff and changes nothing: the playing sequence, the transport
\* and every set of active notes stay as they were
C14_IdleTransportCallsChangeNothing ==
    [][/\ (lastOp'.op = "stopPlayback" /\ ~m_isPlaying) =>
              /\ lastOp'.returned /\ lastOp'.ret = 1
              /\ lastOp'.on = {} /\ lastOp'.off = {}
              /\ UNCHANGED progVars
       /\ (lastOp'.op = "startPlayback" /\ ~Has(m_sequences, lastOp'.args[1])) =>
              /\ lastOp'.returned /\ lastOp'.ret = 0
              /\ lastOp'.on = {} /\ lastOp'.off = {}
              /\ UNCHANGED progVars]_vars

\* startPlayback was refused for an unknown id while a sequence plays a note
C14_RefusedWhilePlaying ==
    /\ lastOp.op = "startPlayback" /\ lastOp.ret = 0
    /\ m_isPlaying /\ Has(m_sequences, m_activeSequenceId)
    /\ \E i \in DOMAIN m_activeNotes : m_activeNotes[i] # {}

----------------------------------------------------------------------------
(* Properties of the editing calls *)

\* what the claims call a note addNote must refuse
Refusable(sequenceId, trackId, noteNumber) ==
    ~(/\ sequenceId \in DOMAIN m_sequences
      /\ trackId \in DOMAIN m_sequences[sequenceId].tracks
      /\ noteNumber \in 0..127
      /\ m_sequences[sequenceId].tracks[trackId].instrumentId \in DOMAIN m_instruments)

RefusableCall(args) == Refusable(args[1], args[2], args[3])

\* C15: addNote returns -1 when the sequence is unknown, the track is unknown in that
\* sequence, the note number is outside 0..127 or the track's instrument is not
\* registered; then no note is stored, the note-id counter does not advance and no
\* noteOn is issued.  addTrack on an existing sequence succeeds and stores the
\* instrument id it is given, registered or not
C15_AddNoteRefusals ==
    /\ [](\A sk \in EditedTracks : \A n \in CheckedNotes :
             Refusable(sk[1], sk[2], n) =>
                 AddNoteRejectsIn(m_sequences, m_instruments, sk[1], sk[2], n))
    /\ [][/\ (lastOp'.op = "addNote" /\ RefusableCall(lastOp'.args)) =>
                  /\ lastOp'.ret = -1
                  /\ lastOp'.on = {}
                  /\ UNCHANGED progVars
          /\ (lastOp'.op = "addTrack" /\ Has(m_sequences, lastOp'.args[1])) =>
                  /\ lastOp'.ret = m_nextTrackId
                  /\ m_nextTrackId' = m_nextTrackId + 1
                  /\ Has(m_sequences'[lastOp'.args[1]].tracks, lastOp'.ret)
                  /\ m_sequences'[lastOp'.args[1]].tracks[lastOp'.ret].instrumentId
                         = lastOp'.args[2]]_vars

\* addNote was refused on an existing track because its instrument was unloaded
C15_RefusedForInstrument ==
    /\ lastOp.op = "addNote" /\ lastOp.ret = -1
    /\ Has(m_sequences, lastOp.args[1])
    /\ Has(m_sequences[lastOp.args[1]].tracks, lastOp.args[2])
    /\ lastOp.args[3] \in 0..127
    /\ ~Has(m_instruments, m_sequences[lastOp.args[1]].tracks[lastOp.args[2]].instrumentId)

\* the note an addNote call that returned the id ret stored
StoredNote(args, ret) == m_sequences'[args[1]].tracks[args[2]].notes[ret]

\* C16: a successful addNote of a note with (clamped) startTime <= 0 on the active,
\* playing sequence makes the note active on the track's instrument, with its stored
\* velocity, before it returns; a successful addNote on another sequence, while the
\* transport is idle, or with startTime > 0 leaves the active notes unchanged
C16_AddNoteTriggersOnlyWhenDue ==
    [][(lastOp'.op = "addNote" /\ lastOp'.ret # -1) =>
           LET note == StoredNote(lastOp'.args, lastOp'.ret)
               i == m_sequences[lastOp'.args[1]].tracks[lastOp'.args[2]].instrumentId
           IN  IF m_isPlaying /\ lastOp'.args[1] = m_activeSequenceId /\ note.startTime <= 0
               THEN /\ Has(m_activeNotes', i)
                    /\ note.noteNumber \in m_activeNotes'[i]
                    /\ GetNoteVelocity(Tables', i, note.noteNumber) = note.velocity
                    /\ lastOp'.on = {<<i, note.noteNumber, note.velocity>>}
               ELSE /\ UNCHANGED tableVars
                    /\ lastOp'.on = {}]_vars

\* addNote on the playing sequence has just made its note active
C16_AddedNoteSounds ==
    /\ lastOp.op = "addNote" /\ lastOp.ret >= 1 /\ lastOp.on # {}
    /\ m_isPlaying /\ lastOp.args[1] = m_activeSequenceId
    /\ \E i \in DOMAIN m_activeNotes : lastOp.args[3] \in m_activeNotes[i]

\* the sequences after the step are those before it without note j of track k of
\* sequence s
OnlyNoteRemoved(s, k, j) ==
    /\ DOMAIN m_sequences' = DOMAIN m_sequences
    /\ \A s2 \in DOMAIN m_sequences :
           /\ m_sequences'[s2].tempo = m_sequences[s2].tempo
           /\ m_sequences'[s2].isPlaying = m_sequences[s2].isPlaying
           /\ DOMAIN m_sequences'[s2].tracks = DOMAIN m_sequences[s2].tracks
           /\ \A k2 \in DOMAIN m_sequences[s2].tracks :
                  LET old == m_sequences[s2].tracks[k2]
                      new == m_sequences'[s2].tracks[k2]
                  IN  /\ new.instrumentId = old.instrumentId
                      /\ new.volume = old.volume
                      /\ DOMAIN new.notes = IF s2 = s /\ k2 = k THEN (DOMAIN old.notes) \ {j}
                                                               ELSE DOMAIN old.notes
                      /\ \A j2 \in DOMAIN new.notes : new.notes[j2] = old.notes[j2]

\* whether a deleteNote call names a stored note
NamesNote(args) ==
    /\ Has(m_sequences, args[1])
    /\ Has(m_sequences[args[1]].tracks, args[2])
    /\ Has(m_sequences[args[1]].tracks[args[2]].notes, args[3])

\* C17: deleteNote on an existing note returns true and removes exactly that note; on
\* the active, playing sequence it issues noteOff for the note's number on the
\* track's instrument (which takes the number out of a registered instrument's
\* active notes once the registry is initialised), otherwise it leaves the active
\* notes unchanged; with an unknown sequence, track or note id it returns false and
\* changes nothing
C17_DeleteNoteRemovesAndSilences ==
    [][lastOp'.op = "deleteNote" =>
           IF NamesNote(lastOp'.args)
           THEN LET track == m_sequences[lastOp'.args[1]].tracks[lastOp'.args[2]]
                    i == track.instrumentId
                    n == track.notes[lastOp'.args[3]].noteNumber
                IN  /\ lastOp'.ret = 1
                    /\ OnlyNoteRemoved(lastOp'.args[1], lastOp'.args[2], lastOp'.args[3])
                    /\ lastOp'.on = {}
                    /\ IF m_isPlaying /\ lastOp'.args[1] = m_activeSequenceId
                       THEN /\ lastOp'.off = {<<i, n>>}
                            /\ (im_isInitialized /\ Has(m_instruments, i)) =>
                                   n \notin MapGet(m_activeNotes', i, {})
                            /\ \A i2 \in DOMAIN m_activeNotes' :
                                   /\ Has(m_activeNotes, i2)
                                   /\ m_activeNotes'[i2] \subseteq m_activeNotes[i2]
                            /\ \A i2 \in DOMAIN m_activeNotes :
                                   m_activeNotes[i2] \ MapGet(m_activeNotes', i2, {})
                                       \subseteq (IF i2 = i THEN {n} ELSE {})
                       ELSE /\ lastOp'.off = {}
                            /\ UNCHANGED tableVars
           ELSE /\ lastOp'.ret = 0
                /\ lastOp'.on = {} /\ lastOp'.off = {}
                /\ UNCHANGED progVars]_vars

\* deleteNote on the playing sequence has just silenced its note
C17_DeletedNoteSilenced ==
    /\ lastOp.op = "deleteNote" /\ lastOp.ret = 1 /\ lastOp.off # {}
    /\ m_isPlaying /\ im_isInitialized
    /\ \A c \in lastOp.off : Has(m_instruments, c[1]) /\ c[2] \notin MapGet(m_activeNotes, c[1], {})

\* C18: every stored sequence has tempo > 0 and every stored note has noteNumber in
\* 0..127, velocity in 1..127, startTime >= 0 and duration > 0; a requested tempo
\* <= 0 is stored as 120, a negative startTime as 0 and a duration <= 0 as 0.1
C18_StoredValuesInRange ==
    /\ [](\A s \in DOMAIN m_sequences :
             /\ m_sequences[s].tempo > 0
             /\ \A k \in DOMAIN m_sequences[s].tracks :
                    \A j \in DOMAIN m_sequences[s].tracks[k].notes :
                        LET note == m_sequences[s].tracks[k].notes[j]
                        IN  /\ note.noteNumber \in 0..127
                            /\ note.velocity \in 1..127
                            /\ FLessEq(0, note.startTime)
                            /\ FLess(0, note.duration))
    /\ [][/\ (lastOp'.op = "createSequence" /\ lastOp'.args[1] <= 0) =>
                  m_sequences'[lastOp'.ret].tempo = DefaultTempo
          /\ (lastOp'.op = "addNote" /\ lastOp'.ret # -1) =>
                  LET note == StoredNote(lastOp'.args, lastOp'.ret)
                  IN  /\ FLess(lastOp'.args[5], 0) => note.startTime = 0
                      /\ FLessEq(lastOp'.args[6], 0) => note.duration = DefaultDuration]_vars

----------------------------------------------------------------------------
(* Properties of the engine's lifecycle *)

\* the engine has been initialised by an init call that returned success: Enqueue is
\* the last step of init, so a buffer is enqueued exactly by the calls that succeed
InitSucceeded == audioEngine.enqueued > 0

\* C19: init on an engine that is already initialised returns success and does
\* nothing: no second set of device objects or buffers, no further buffer enqueued,
\* no further instrument, the lifecycle flags unchanged (with a device on which
\* every step succeeds)
C19_InitIdempotent ==
    [][(/\ lastOp'.op = "AudioEngine::init"
        /\ lastOp'.args[2] = 0
        /\ audioEngine.m_isInitialized /\ InitSucceeded) =>
           /\ lastOp'.ret = 1
           /\ UNCHANGED <<audioEngine, tableVars, nextId>>]_vars

\* C20: start returns success, and the engine becomes running, only on an engine
\* initialised by an init call that returned success; on an engine never
\* initialised, or whose init failed at some step, it returns failure and the
\* engine stays not running.  In every state running implies initialised
C20_StartOnlyAfterInit ==
    /\ [](audioEngine.m_isRunning => audioEngine.m_isInitialized)
    /\ [][lastOp'.op = "AudioEngine::start" =>
              /\ lastOp'.ret = 1 => (InitSucceeded /\ audioEngine'.m_isRunning)
              /\ ~InitSucceeded => (lastOp'.ret = 0 /\ ~audioEngine'.m_isRunning)]_vars

----------------------------------------------------------------------------
(* Properties of the render path *)

\* the buffers in the queues of the device's players
Queued(e) == UNION {{e.players[p].queue[i] : i \in DOMAIN e.players[p].queue} : p \in DOMAIN e.players}

\* the player the engine starts and stops
CurrentQueue(e) == IF e.m_player \in DOMAIN e.players THEN e.players[e.m_player].queue ELSE << >>

\* C21: every start that returns success and moves the engine from not running to
\* running has enqueued exactly one buffer at the device: the count of enqueued
\* buffers and the queue of the engine's player have each grown by one when the
\* engine is marked running
C21_StartEnqueuesOneBuffer ==
    [][(/\ lastOp'.op = "AudioEngine::start"
        /\ lastOp'.ret = 1
        /\ ~audioEngine.m_isRunning /\ audioEngine'.m_isRunning) =>
           /\ audioEngine'.enqueued = audioEngine.enqueued + 1
           /\ Len(CurrentQueue(audioEngine')) = Len(CurrentQueue(audioEngine)) + 1]_vars

\* C23: while the callback writes the output buffer it will enqueue, that buffer is in
\* no player's queue
C23_CallbackWritesNoQueuedBuffer ==
    threads.callback = "convert" => "m_currentBufferPtr" \notin Queued(audioEngine)

\* C24: while the callback is inside onProcessSamples, where it reads and writes the
\* registry's tables, it holds the registry's mutex, so no control thread is inside
\* a mutating registry call at the same time
C24_CallbackHoldsRegistryMutex ==
    threads.callback \in {"onProcessSamples", "synthesis"} =>
        (threads.imMutex = "callback" /\ threads.control = << >>)

\* C25: while the engine is not running (stop has returned, or start has not yet
\* succeeded) no callback is inside processNextBuffer, and no step taken while it is
\* not running begins one, writes a buffer or enqueues one
C25_NoRenderPassWhileStopped ==
    /\ [](~audioEngine.m_isRunning => threads.callback = "idle")
    /\ [][~audioEngine.m_isRunning =>
              lastOp'.op \notin {"bufferQueueCallback", "getActiveInstruments",
                                 "onProcessSamples", "convert", "processNextBuffer"}]_vars


----------------------------------------------------------------------------
(* Properties of the control plane *)

\* C22: stop on a Running engine moves it to Stopped and leaves the device buffer
\* queue empty; stop on an engine that is not Running reports success and changes no
\* state; stop_audio_engine on an existing engine never reports failure.
C22_StopEmptiesQueue ==
    [][(lastOp'.op = "stop_audio_engine" /\ g_initialized) =>
           /\ lastOp'.ret = 1
           /\ IF audioEngine.m_isRunning
              THEN ~audioEngine'.m_isRunning /\ CurrentQueue(audioEngine') = << >>
              ELSE UNCHANGED progVars]_vars

\* the notes stored in all tracks of all sequences
StoredNotes(sequences) ==
    {<<s, k, j>> \in (DOMAIN sequences) \X (1..MaxTrackId) \X (1..MaxNoteId) :
        /\ k \in DOMAIN sequences[s].tracks
        /\ j \in DOMAIN sequences[s].tracks[k].notes}

\* C26: add_note returns a failure sentinel (0 or -1) whenever the sequencer rejects
\* the note, and a success value only when a note was actually stored.
C26_AddNoteReportsRejection ==
    [][lastOp'.op = "add_note" =>
           LET stored == StoredNotes(m_sequences') # StoredNotes(m_sequences)
           IN  /\ ~stored => lastOp'.ret \in {0, -1}
               /\ lastOp'.ret \notin {0, -1} => stored]_vars

\* the control-plane operations that act on an existing engine: init_audio_engine
\* and shutdown, which create and destroy it, are not among them
ControlPlaneOps ==
    {"start_audio_engine", "stop_audio_engine", "set_master_volume", "load_instrument",
     "play_note", "stop_note", "add_note"}

\* C27: every control-plane operation other than init, invoked while the engine is
\* not initialized, returns its failure sentinel and changes no engine, registry
\* or sequencer state.
C27_UninitializedCallsRejected ==
    [][(~g_initialized /\ lastOp'.op \in ControlPlaneOps) =>
           (lastOp'.ret \in {0, -1} /\ UNCHANGED progVars)]_vars

\* C28: after set_master_volume(v) on an initialized engine the master volume the
\* engine hands to its render passes is v clamped to [0, 1]; the engine's master
\* volume is in [0, 1] in every reachable state.
C28_MasterVolumeApplied ==
    /\ [](audioEngine.m_masterVolume \in 0..VolOne)
    /\ [][(/\ lastOp'.op = "set_master_volume" /\ g_initialized
           /\ lastOp'.args[1] # VolNaN) =>
              audioEngine'.m_masterVolume = ClampVolume(lastOp'.args[1])]_vars


----------------------------------------------------------------------------
(* Properties of the registry's render call *)

\* the instruments that have an active note
Sounding(t) == {id \in DOMAIN t.act : t.act[id] # {}}

\* C29: a render call of the engine-owned registry leaves the buffer all-zero
\* whenever no instrument has an active note, and leaves a sample other than 0 in it
\* whenever a note is active on an existing instrument whose volume is above 0 and
\* the master volume is above 0.
C29_RenderSoundsActiveNotes ==
    [][(lastOp'.op = "AudioEngine::renderAudio" /\ lastOp'.args[1] > 0) =>
           /\ Sounding(Tables) = {} => lastOp'.ret = 0
           /\ (/\ \E id \in Sounding(Tables) :
                      Has(m_instruments, id) /\ m_instruments[id].volume > 0
               /\ audioEngine.m_masterVolume > 0) => lastOp'.ret = 1]_vars

\* the phase of note n of instrument id in the tables t, within one period
PhaseOf(t, id, n) == MapGet(MapGet(t.pha, id, EmptyMap), n, 0) % DefaultSampleRate

\* C30: for a sustained note and every even frame count N >= 2, rendering N frames in
\* one call and N/2 frames in each of two consecutive calls leave the note's phase at
\* the same value modulo one period.
C30_PhaseContinuousAcrossCalls ==
    \A N \in {k \in FrameCountInputs : k >= 2 /\ k % 2 = 0} :
        LET once == RenderAudioIn(im_isInitialized, Tables, DefaultSampleRate, N, VolOne).t
            half == RenderAudioIn(im_isInitialized, Tables, DefaultSampleRate, N \div 2, VolOne).t
            twice == RenderAudioIn(im_isInitialized, half, DefaultSampleRate, N \div 2, VolOne).t
        IN  \A id \in Sounding(Tables) : \A n \in m_activeNotes[id] :
                PhaseOf(once, id, n) = PhaseOf(twice, id, n)


----------------------------------------------------------------------------
(* Properties of the default instrument *)

\* what a step of createSineWaveInstrument does to instrument 0: it is registered
\* afterwards; when it was absent it has volume 1.0 and empty note state; when it was
\* present it and its note state are as they were; the id returned is not 0
DefaultKeptOrCreated ==
    lastOp'.op = "createSineWaveInstrument" =>
        /\ Has(m_instruments', 0)
        /\ lastOp'.ret # 0
        /\ IF Has(m_instruments, 0)
           THEN /\ m_instruments'[0] = m_instruments[0]
                /\ MapGet(m_activeNotes', 0, {}) = MapGet(m_activeNotes, 0, {})
                /\ MapGet(m_noteVelocities', 0, EmptyMap) = MapGet(m_noteVelocities, 0, EmptyMap)
                /\ MapGet(m_notePhases', 0, EmptyMap) = MapGet(m_notePhases, 0, EmptyMap)
           ELSE /\ m_instruments'[0] = NewInstrument
                /\ m_activeNotes'[0] = {}
                /\ m_noteVelocities'[0] = EmptyMap
                /\ m_notePhases'[0] = EmptyMap

\* C40 as stated: immediately after every successful createInstrument call,
\* instrument 0 is registered with volume 1.0; a create that finds it absent
\* registers it with empty note sets, one that finds it present leaves it and its
\* active notes untouched; the id returned is never 0.
C40_DefaultAtFullVolume ==
    [][/\ DefaultKeptOrCreated
       /\ lastOp'.op = "createSineWaveInstrument" => m_instruments'[0].volume = VolOne]_vars

\* C40 amended: immediately after every successful createInstrument call instrument
\* 0 is registered; a create that finds it absent registers it with volume 1.0 and
\* empty note sets, one that finds it present leaves it, its volume and its active
\* notes untouched; the id returned is never 0.
C40_DefaultKeptOrCreated == [][DefaultKeptOrCreated]_vars

\* a create has just returned and left instrument 0 turned down and sounding
C40_DefaultKeptQuiet ==
    /\ lastOp.op = "createSineWaveInstrument"
    /\ Has(m_instruments, 0)
    /\ m_instruments[0].volume # VolOne
    /\ MapGet(m_activeNotes, 0, {}) # {}


----------------------------------------------------------------------------
(* Properties of the note state *)

\* C35: note state exists exactly for active notes: in every reachable state, for
\* every registered instrument, the notes with a stored phase are the notes with a
\* stored velocity are the active notes; after sendNoteOff(id, n) returns true
\* neither a velocity nor a phase entry for (id, n) remains.
C35_NoteStateForActiveNotes ==
    /\ [](\A id \in DOMAIN m_instruments :
              /\ DOMAIN MapGet(m_notePhases, id, EmptyMap) = MapGet(m_activeNotes, id, {})
              /\ DOMAIN MapGet(m_noteVelocities, id, EmptyMap) = MapGet(m_activeNotes, id, {}))
    /\ [][(lastOp'.op = "sendNoteOff" /\ lastOp'.ret = 1) =>
              LET id == lastOp'.args[1]
                  n == lastOp'.args[2]
              IN  /\ n \notin DOMAIN MapGet(m_noteVelocities', id, EmptyMap)
                  /\ n \notin DOMAIN MapGet(m_notePhases', id, EmptyMap)]_vars


\* phases on both sides of the wrap of a note that advances by inc per frame
BoundaryPhases(inc, period) == {0, 1, period - inc - 1, period - inc, period - 1} \cap (0..(period - 1))

----------------------------------------------------------------------------
(* Properties of the callback's buffers *)

\* C32: the scratch buffer holds framesPerBuffer x channels samples, and every index
\* the callback's zeroing, synthesis and conversion touch in the scratch buffer and
\* in the output buffer is below that buffer's allocated size.
C32_CallbackStaysInsideBuffers ==
    /\ audioEngine.m_isInitialized => audioEngine.m_tempBuffer = FramesPerBuffer * 2
    /\ threads.scratch <= audioEngine.m_tempBuffer
    /\ threads.output <= (IF audioEngine.m_currentBufferPtr THEN FramesPerBuffer * 2 ELSE 0)

\* C33: each callback first swaps to the output buffer that is not the one most
\* recently handed to the device: the current-buffer index changes when a callback
\* begins, the buffer a callback fills is not the one enqueued last, and a callback
\* takes its steps in the order zero scratch, render, convert, enqueue.
C33_CallbackSwapsBeforeFill ==
    [][/\ lastOp'.op = "bufferQueueCallback" /\ threads'.callback # "idle" =>
              audioEngine'.m_currentBuffer # audioEngine.m_currentBuffer
       /\ lastOp'.op = "convert" => audioEngine.handed # "m_currentBufferPtr"
       /\ threads'.callback # threads.callback =>
              <<threads.callback, threads'.callback>> \in
                  {<<"idle", "onProcessSamples">>, <<"onProcessSamples", "synthesis">>,
                   <<"synthesis", "convert">>, <<"convert", "Enqueue">>,
                   <<"Enqueue", "idle">>}]_vars

\* C34: in every reachable state every instrument id that is a key of the active
\* notes, of the velocity map or of the phase map is a registered instrument, also
\* while a callback runs next to the control thread's calls.
C34_NoteStateOfRegisteredOnly ==
    (DOMAIN m_activeNotes) \cup (DOMAIN m_noteVelocities) \cup (DOMAIN m_notePhases)
        \subseteq DOMAIN m_instruments


----------------------------------------------------------------------------
(* Properties of the objects' lifetime *)

\* C37: across init, dispose and shutdown calls each registry, sequencer and engine
\* instance is destroyed exactly once, by its owner: no object is ever destroyed
\* twice, and while the control plane is initialized its three objects are alive.
C37_DestroyedOnceByOwner ==
    /\ \A o \in DOMAIN ffi.destroyed : ffi.destroyed[o] <= 1
    /\ g_initialized =>
           /\ ffi.g_audioEngine /\ ffi.g_instrumentManager /\ ffi.g_sequenceManager
           /\ \A o \in DOMAIN ffi.destroyed : ffi.destroyed[o] = 0

\* C38: when a shutdown or dispose is interleaved with another thread's control-plane
\* call, that call never uses the engine, registry or sequencer after it was
\* destroyed: it completes before the destruction or is rejected as uninitialized.
C38_NoUseAfterDestruction ==
    /\ ~ffi.stale
    /\ ffi.call # << >> => ffi.g_instrumentManager /\ ffi.destroyed.registry = 0


----------------------------------------------------------------------------
(* Properties of the lock order *)

\* C39: locks nest only in the order sequencer lock, then registry lock: no thread
\* waits for the sequencer lock while it holds the registry lock, a thread that holds
\* both took the sequencer's first, and no two threads each wait for a lock the other
\* holds.
C39_SequencerLockFirst ==
    /\ \A w \in Workers :
           /\ WaitsFor(w) = SeqLock => RegLock \notin Range(threads.workers[w].holds)
           /\ \A i, j \in 1..Len(threads.workers[w].holds) :
                  (threads.workers[w].holds[i] = RegLock /\
                   threads.workers[w].holds[j] = SeqLock) => j < i
    /\ \A v, w \in Workers :
           v # w => ~(/\ WaitsFor(v) \in Range(threads.workers[w].holds)
                      /\ WaitsFor(w) \in Range(threads.workers[v].holds))

\* a sequencer call holds both locks while another thread waits for the registry's
\* and the callback waits for it too
C39_NestedWhileOthersWait ==
    \E v, w \in Workers :
        /\ v # w
        /\ threads.workers[v].holds = <<SeqLock, RegLock>>
        /\ WaitsFor(w) = RegLock
        /\ threads.workers[w].call \in {"sendNoteOn", "sendNoteOff", "unloadInstrument"}
        /\ WaitsFor("audio") = RegLock


----------------------------------------------------------------------------
(* Properties of the sample values *)

InUnit(x) == x # SampleNaN /\ -SampleOne <= x /\ x <= SampleOne

\* C31: every sample a render call writes is in [-1, 1], for every set of active
\* notes, every velocity, instrument volume and master volume: both the mix that
\* renderAudio limits with tanh and the mix that onProcessSamples clamps.
C31_SamplesWithinUnit ==
    \A i \in MeasuredFrames :
        /\ InUnit(RenderedSample(im_isInitialized, Tables, audioEngine.m_masterVolume, i))
        /\ InUnit(ProcessedSample(Tables, m_sampleRate, i))

\* a render call has brought note 60, sounded by four instruments at full velocity
\* and volume, to its crest: the mix of the next frame is above 1 before the limiter
C31_MixAboveUnit ==
    /\ im_isInitialized
    /\ lastOp.op = "AudioEngine::renderAudio"
    /\ lastOp.ret = 1
    /\ Cardinality(MixedNotes(Tables)) = 4
    /\ MixedSample(Tables, audioEngine.m_masterVolume, 0) > SampleOne
    /\ RenderedSample(im_isInitialized, Tables, audioEngine.m_masterVolume, 0)
           \in 1..SampleOne

====
